---- MODULE Spec2Model ----
(***************************************************************************)
(* A model of parts of probe-rs:                                           *)
(*   - RawFlashAlgorithm::assemble   (probe-rs/src/config/flash_algorithm) *)
(*   - the ST-Link probe driver      (probe-rs/src/probe/stlink/mod.rs)    *)
(*   - the cargo-flash command       (cargo-flash/src/main.rs)             *)
(*   - its cargo build arguments     (cargo-flash/src/main.rs)             *)
(*   - the access port enumeration   (probe-rs/src/coresight/ap_access.rs) *)
(*   - the GDB worker                (gdb-server/src/worker.rs)            *)
(*   - the GDB writer                (gdb-server/src/writer.rs)            *)
(* Each part has its own specification (SpecAsm, SpecStl, SpecCf, SpecArgs,*)
(* SpecAp, SpecGdb, SpecWr) over the same variables; a part that a         *)
(* specification does not exercise keeps its initial value.  SpecGdbFair   *)
(* is SpecGdb with the polling thread scheduled again and again.           *)
(***************************************************************************)
EXTENDS Integers, Naturals, Sequences, FiniteSets, TLC

VARIABLES
    \* ---- flash algorithm assembler ----
    asm_pc,      \* "call": assemble not yet run; "ret": assemble has returned
    raw,         \* the RawFlashAlgorithm (self)
    ram_region,  \* RamRegion.range  [start, end)
    flash_region,\* FlashRegion (page_size)
    algo,        \* the FlashAlgorithm returned by assemble
    \* ---- ST-Link driver ----
    stl_pc,      \* "closed" | "open" | "failed" | "dropped"
    hw_version,  \* STLink.hw_version
    jtag_version,\* STLink.jtag_version
    protocol,    \* STLink.protocol
    dev,         \* the probe as seen over USB: mode and version replies
    last,        \* the last driver call: name, arguments, result, commands sent
    \* ---- cargo-flash ----
    cf_pc,       \* the step main_try is about to take, or "exited"
    cf_opt,      \* the parsed command line (Opt)
    cf_status,   \* the ExitStatus of the cargo build child
    cf_probe,    \* device.probe_type of the probe that list.pop() gave
    cf_log,      \* what the process did so far: <<step or probe command, result>>
    cf_stderr,   \* what the process wrote to stderr
    cf_exit,     \* {} while the process runs, {code} once it has exited
    \* ---- the arguments of cargo build ----
    arg_pc,      \* "call": main_try has not started; "ret": cargo build is spawned
    argv,        \* std::env::args()
    build_args,  \* what .args(args) hands to cargo build, or the panic
    \* ---- access port enumeration ----
    ap_pc,       \* "call": nothing called yet; "ret": the call has returned
    ap_dp,       \* the debug port: what read_ap_register(port, IDR) returns
    ap_call,     \* the call made: function, predicate, result, ports read
    \* ---- GDB worker ----
    gw_pc,            \* where the packet loop is; "returned": Ok(()), "failed": Err
    poll_pc,          \* where the halt-polling thread is
    input_stream,     \* the packets still to be received
    output_stream,    \* the responses sent so far
    packet,           \* the packet being handled
    core_ops,         \* the core operations the handler still has to do for it
    break_due,        \* break_due
    session_mutex,    \* who holds the Session mutex
    awaits_halt_mutex,\* who holds the awaits_halt mutex
    poisoned,         \* the mutexes a panicking thread left poisoned
    awaits_halt,      \* the flag behind the awaits_halt mutex
    core,             \* the target core: "halted" or "running"
    in_dap,           \* the threads inside a core or probe operation
    trace,            \* what went over the two channels so far, in order
    \* ---- GDB writer ----
    wr_pc,       \* "call" | "read" | "scan" | "ret_ok" | "ret_err"
    wr_packet,   \* the packet to write: is_valid()
    stream,      \* the TcpStream: what was written, what the peer still sends
    buffer,      \* the caller's buffer of bytes read and not yet consumed
    acked        \* an ack byte has been consumed from the buffer

asm_vars == <<asm_pc, raw, ram_region, flash_region, algo>>
stl_vars == <<stl_pc, hw_version, jtag_version, protocol, dev, last>>
cf_vars == <<cf_pc, cf_opt, cf_status, cf_probe, cf_log, cf_stderr, cf_exit>>
arg_vars == <<arg_pc, argv, build_args>>
ap_vars == <<ap_pc, ap_dp, ap_call>>
gdb_vars == <<gw_pc, poll_pc, input_stream, output_stream, packet, core_ops, break_due,
              session_mutex, awaits_halt_mutex, poisoned, awaits_halt, core, in_dap,
              trace>>
wr_vars == <<wr_pc, wr_packet, stream, buffer, acked>>
vars == <<asm_vars, stl_vars, cf_vars, arg_vars, ap_vars, gdb_vars, wr_vars>>
\* what a step of one part leaves alone
outside_asm == <<stl_vars, cf_vars, arg_vars, ap_vars, gdb_vars, wr_vars>>
outside_stl == <<asm_vars, cf_vars, arg_vars, ap_vars, gdb_vars, wr_vars>>
outside_cf == <<asm_vars, arg_vars, ap_vars, gdb_vars, wr_vars>>
outside_arg == <<asm_vars, stl_vars, cf_vars, ap_vars, gdb_vars, wr_vars>>
outside_ap == <<asm_vars, stl_vars, cf_vars, arg_vars, gdb_vars, wr_vars>>
outside_gdb == <<asm_vars, stl_vars, cf_vars, arg_vars, ap_vars, wr_vars>>
outside_wr == <<asm_vars, stl_vars, cf_vars, arg_vars, ap_vars, gdb_vars>>

(***************************************************************************)
(* Bounds of the model.                                                    *)
(***************************************************************************)
\* RAM region lengths are 8 * k for k in 0..MaxRamUnits
MaxRamUnits == 200
\* the longest raw algorithm, in 32-bit words
MaxInstrWords == 64
\* access ports 0..MaxLiveAp and the last one answer each in its own way; all
\* the others answer alike
MaxLiveAp == 2
\* the number of packets the GDB client sends
MaxPackets == 2
\* the options and other arguments given on a cargo-flash command line
MaxArgItems == 3
\* the number of bytes the peer of the GDB writer sends before it stops
MaxPeerBytes == 3

(***************************************************************************)
(* Flash algorithm assembler                                               *)
(***************************************************************************)
FLASH_BLOB_HEADER_SIZE == 8 * 4
FLASH_ALGO_STACK_SIZE == 512
FLASH_ALGO_STACK_DECREMENT == 64

\* A 32-bit word is kept as its two 16-bit halves <<high, low>>.
FLASH_BLOB_HEADER ==
    << <<57354, 48640>>,   \* 0xE00A_BE00
       <<1581, 30733>>,    \* 0x062D_780D
       <<9224, 16488>>,    \* 0x2408_4068
       <<54016, 64>>,      \* 0xD300_0040
       <<7780, 16472>>,    \* 0x1E64_4058
       <<7241, 53754>>,    \* 0x1C49_D1FA
       <<10752, 7762>>,    \* 0x2A00_1E52
       <<1143, 3359>> >>   \* 0x0477_0D1F

\* Option<u32>: {} is None, {v} is Some(v)
OptMap(opt, base) == {base + v : v \in opt}

\* (variant: the data buffer is placed one page too high)
StackIter_DataAfterPage(i, ninstr, ram, page_size) ==
    LET offset0 == FLASH_ALGO_STACK_SIZE - FLASH_ALGO_STACK_DECREMENT * i
        offset1 == offset0 + ninstr * 4
        offset2 == offset1 + page_size
    IN  [offset |-> offset2, addr_stack |-> ram.start + offset0,
         addr_load |-> ram.start + offset0, addr_data |-> ram.start + offset2]

\* (variant: the code is loaded at the start of the region, over the stack)
StackIter_LoadAtStart(i, ninstr, ram, page_size) ==
    LET offset0 == FLASH_ALGO_STACK_SIZE - FLASH_ALGO_STACK_DECREMENT * i
        offset1 == offset0 + ninstr * 4
        offset2 == offset1 + page_size
    IN  [offset |-> offset2, addr_stack |-> ram.start + offset0,
         addr_load |-> ram.start, addr_data |-> ram.start + offset1]

\* for i in 0..8, the values of the locals after iteration i
StackIter(i, ninstr, ram, page_size) ==
    LET offset0 == FLASH_ALGO_STACK_SIZE - FLASH_ALGO_STACK_DECREMENT * i
        addr_stack == ram.start + offset0
        offset1 == offset0 + ninstr * 4
        addr_data == ram.start + offset1
        offset2 == offset1 + page_size
    IN  [offset |-> offset2, addr_stack |-> addr_stack,
         addr_load |-> addr_stack, addr_data |-> addr_data]

StackFits(it, ram) == it.offset <= ram.end - ram.start

\* (variant: the loop does not leave at the first fit, it keeps the last one)
RECURSIVE StackLoop_LastFit(_, _, _, _)
StackLoop_LastFit(i, ninstr, ram, page_size) ==
    LET it == StackIter(i, ninstr, ram, page_size)
    IN  IF i + 1 < FLASH_ALGO_STACK_SIZE \div FLASH_ALGO_STACK_DECREMENT
        THEN LET rest == StackLoop_LastFit(i + 1, ninstr, ram, page_size)
             IN  IF StackFits(rest, ram) \/ ~StackFits(it, ram) THEN rest ELSE it
        ELSE it

\* the loop of assemble: leaves at the first iteration that fits, or after the last
RECURSIVE StackLoop(_, _, _, _)
StackLoop(i, ninstr, ram, page_size) ==
    LET it == StackIter(i, ninstr, ram, page_size)
    IN  IF StackFits(it, ram) THEN it
        ELSE IF i + 1 < FLASH_ALGO_STACK_SIZE \div FLASH_ALGO_STACK_DECREMENT
             THEN StackLoop(i + 1, ninstr, ram, page_size)
             ELSE it

\* (variant: the second buffer must leave a byte free)
PageBuffers_Strict(it, ram, page_size) ==
    IF it.offset + page_size < ram.end - ram.start
    THEN <<it.addr_data, ram.start + it.offset>>
    ELSE <<it.addr_data>>

PageBuffers(it, ram, page_size) ==
    LET addr_data2 == ram.start + it.offset
        offset == it.offset + page_size
    IN  IF offset <= ram.end - ram.start
        THEN <<it.addr_data, addr_data2>>
        ELSE <<it.addr_data>>

\* (variant: the header size is left out of the relocation base)
CodeStart_NoHeader(addr_load) == addr_load

CodeStart(addr_load) == addr_load + FLASH_BLOB_HEADER_SIZE

\* (variant: the header is put after the raw instructions)
assemble_RawFirst(self, ram, flash) ==
    LET instructions == self.instructions \o FLASH_BLOB_HEADER
        it == StackLoop(0, Len(instructions), ram, flash.page_size)
        page_buffers == PageBuffers(it, ram, flash.page_size)
        code_start == CodeStart(it.addr_load)
    IN  [ load_address    |-> it.addr_load,
          instructions    |-> instructions,
          pc_init         |-> OptMap(self.pc_init, code_start),
          pc_uninit       |-> OptMap(self.pc_uninit, code_start),
          pc_program_page |-> code_start + self.pc_program_page,
          pc_erase_sector |-> code_start + self.pc_erase_sector,
          pc_erase_all    |-> OptMap(self.pc_erase_all, code_start),
          static_base     |-> code_start + self.data_section_offset,
          begin_stack     |-> it.addr_stack,
          begin_data      |-> page_buffers[1],
          page_buffers    |-> page_buffers ]

assemble(self, ram, flash) ==
    LET instructions == FLASH_BLOB_HEADER \o self.instructions
        it == StackLoop(0, Len(instructions), ram, flash.page_size)
        page_buffers == PageBuffers(it, ram, flash.page_size)
        code_start == CodeStart(it.addr_load)
    IN  [ load_address    |-> it.addr_load,
          instructions    |-> instructions,
          pc_init         |-> OptMap(self.pc_init, code_start),
          pc_uninit       |-> OptMap(self.pc_uninit, code_start),
          pc_program_page |-> code_start + self.pc_program_page,
          pc_erase_sector |-> code_start + self.pc_erase_sector,
          pc_erase_all    |-> OptMap(self.pc_erase_all, code_start),
          static_base     |-> code_start + self.data_section_offset,
          begin_stack     |-> it.addr_stack,
          begin_data      |-> page_buffers[1],
          page_buffers    |-> page_buffers ]

\* ---- inputs ----
\* Regions have start <= end, and all addresses and sizes are far below 2^31,
\* so none of the u32 sums of assemble wraps around for these inputs.
RawWord(i) == <<i, 2 * i + 1>>
RawInstructions(n) == [i \in 1..n |-> RawWord(i)]
RawLens == {0, 2, MaxInstrWords \div 4, MaxInstrWords}
RamStarts == {0, 536870912}          \* 0x0000_0000, 0x2000_0000
RamLengths == {8 * k : k \in 0..MaxRamUnits}
PageSizes == {8, 128, 256, 1024}

RawAlgorithms ==
    { [ instructions |-> RawInstructions(n),
        pc_init |-> pi, pc_uninit |-> pu, pc_erase_all |-> pe,
        pc_program_page |-> 128, pc_erase_sector |-> 160,
        data_section_offset |-> 4 * n ] :
      n \in RawLens, pi \in {{}, {32}}, pu \in {{}, {64}}, pe \in {{}, {96}} }

NoAlgo == [ load_address |-> 0, instructions |-> <<>>, pc_init |-> {},
            pc_uninit |-> {}, pc_program_page |-> 0, pc_erase_sector |-> 0,
            pc_erase_all |-> {}, static_base |-> 0, begin_stack |-> 0,
            begin_data |-> 0, page_buffers |-> <<>> ]

AsmIdle ==
    /\ asm_pc = "idle"
    /\ raw = [ instructions |-> <<>>, pc_init |-> {}, pc_uninit |-> {},
               pc_erase_all |-> {}, pc_program_page |-> 0,
               pc_erase_sector |-> 0, data_section_offset |-> 0 ]
    /\ ram_region = [start |-> 0, end |-> 0]
    /\ flash_region = [page_size |-> 0]
    /\ algo = NoAlgo

AsmInit ==
    /\ asm_pc = "call"
    /\ raw \in RawAlgorithms
    /\ ram_region \in { [start |-> s, end |-> s + l] : s \in RamStarts, l \in RamLengths }
    /\ flash_region \in { [page_size |-> p] : p \in PageSizes }
    /\ algo = NoAlgo

Assemble ==
    /\ asm_pc = "call"
    /\ asm_pc' = "ret"
    /\ algo' = assemble(raw, ram_region, flash_region)
    /\ UNCHANGED <<raw, ram_region, flash_region, outside_asm>>

(***************************************************************************)
(* ST-Link driver                                                          *)
(*                                                                         *)
(* A driver call is computed on a record d:                                *)
(*   hw, jtag, protocol : the fields of the STLink struct                  *)
(*   mode, version, ext_jtag, a0 : the probe behind the USB device         *)
(*   cmds : the commands passed to device.write during the call, in order  *)
(*   io   : the outcome of each of them                                    *)
(*   orc  : the outcomes of the device.write calls still to come           *)
(* An outcome is "UsbErr" (device.write returned Err) or the first byte of *)
(* the reply, a Status ("JtagOk" or another one).                          *)
(***************************************************************************)
MIN_JTAG_VERSION == 24
MIN_JTAG_VERSION_MULTI_AP == 28

Outcomes == {"UsbErr", "JtagOk", "JtagUnknownError"}
PlainOutcomes == {"UsbErr", "JtagOk"}

\* Byte k of the little-endian encoding of x
ByteOf(x, k) == (x \div (256 ^ k)) % 256
\* x as u8
AsU8(x) == x % 256

\* What the probe does on a command that reached it.
ProbeModeAfter(mode, cmd, outcome) ==
    IF cmd = <<"DFU_COMMAND", "DFU_EXIT">> THEN 1
    ELSE IF cmd = <<"SWIM_COMMAND", "SWIM_EXIT">> THEN 1
    ELSE IF Len(cmd) >= 2 /\ cmd[2] = "JTAG_ENTER2" /\ outcome = "JtagOk" THEN 2
    ELSE mode

\* self.device.write(cmd, &[], &mut buf, TIMEOUT)
DeviceWrite(d, cmd) ==
    LET o == Head(d.orc)
    IN  [ d |-> [d EXCEPT !.orc = Tail(@),
                          !.cmds = Append(@, cmd),
                          !.io = Append(@, o),
                          !.mode = IF o = "UsbErr" THEN @
                                   ELSE ProbeModeAfter(@, cmd, o)],
          ok |-> o # "UsbErr",
          status |-> o ]

\* (variant: any status is taken for success)
check_status_AlwaysOk(status) == "Ok"

check_status(status) ==
    IF status # "JtagOk" THEN "Unknown" ELSE "Ok"

get_current_mode(d) ==
    LET w == DeviceWrite(d, <<"GET_CURRENT_MODE">>)
        b == d.mode
    IN  IF ~w.ok THEN [d |-> w.d, res |-> "USB", mode |-> "none"]
        ELSE IF b = 0 THEN [d |-> w.d, res |-> "Ok", mode |-> "Dfu"]
        ELSE IF b = 1 THEN [d |-> w.d, res |-> "Ok", mode |-> "MassStorage"]
        ELSE IF b = 2 THEN [d |-> w.d, res |-> "Ok", mode |-> "Jtag"]
        ELSE IF b = 3 THEN [d |-> w.d, res |-> "Ok", mode |-> "Swim"]
        ELSE [d |-> w.d, res |-> "UnknownMode", mode |-> "none"]

enter_idle(d) ==
    LET m == get_current_mode(d)
    IN  IF m.res # "Ok" THEN [d |-> m.d, res |-> m.res]
        ELSE IF m.mode = "Dfu"
             THEN LET w == DeviceWrite(m.d, <<"DFU_COMMAND", "DFU_EXIT">>)
                  IN  [d |-> w.d, res |-> IF w.ok THEN "Ok" ELSE "USB"]
        ELSE IF m.mode = "Swim"
             THEN LET w == DeviceWrite(m.d, <<"SWIM_COMMAND", "SWIM_EXIT">>)
                  IN  [d |-> w.d, res |-> IF w.ok THEN "Ok" ELSE "USB"]
        ELSE [d |-> m.d, res |-> "Ok"]

\* (variant: the minimum firmware version is not enforced)
VersionCheck_NoMinimum(hw, jtag) ==
    IF jtag = 0 THEN "JTAGNotSupportedOnProbe" ELSE "Ok"

\* the checks at the end of get_version
VersionCheck(hw, jtag) ==
    IF jtag = 0 THEN "JTAGNotSupportedOnProbe"
    ELSE IF hw < 3 /\ jtag < MIN_JTAG_VERSION THEN "ProbeFirmwareOutdated"
    ELSE "Ok"

\* (version >> HW_VERSION_SHIFT) as u8 & HW_VERSION_MASK
HwVersionOf(version) == AsU8(version \div (2 ^ 12)) % 16
\* (version >> JTAG_VERSION_SHIFT) as u8 & JTAG_VERSION_MASK
JtagVersionOf(version) == AsU8(version \div (2 ^ 6)) % 64

\* (variant: the extended query is used from hardware version 2 on)
get_version_ExtFromV2(d) ==
    LET w1 == DeviceWrite(d, <<"GET_VERSION">>)
        d1 == [w1.d EXCEPT !.hw = HwVersionOf(d.version),
                           !.jtag = JtagVersionOf(d.version)]
    IN  IF ~w1.ok THEN [d |-> w1.d, res |-> "USB"]
        ELSE IF d1.hw >= 2
             THEN LET w2 == DeviceWrite(d1, <<"GET_VERSION_EXT">>)
                      d2 == [w2.d EXCEPT !.jtag = d.ext_jtag]
                  IN  IF ~w2.ok THEN [d |-> w2.d, res |-> "USB"]
                      ELSE [d |-> d2, res |-> VersionCheck(d2.hw, d2.jtag)]
        ELSE [d |-> d1, res |-> VersionCheck(d1.hw, d1.jtag)]

get_version(d) ==
    LET w1 == DeviceWrite(d, <<"GET_VERSION">>)
        d1 == [w1.d EXCEPT !.hw = HwVersionOf(d.version),
                           !.jtag = JtagVersionOf(d.version)]
    IN  IF ~w1.ok THEN [d |-> w1.d, res |-> "USB"]
        ELSE IF d1.hw >= 3
             THEN LET w2 == DeviceWrite(d1, <<"GET_VERSION_EXT">>)
                      d2 == [w2.d EXCEPT !.jtag = d.ext_jtag]
                  IN  IF ~w2.ok THEN [d |-> w2.d, res |-> "USB"]
                      ELSE [d |-> d2, res |-> VersionCheck(d2.hw, d2.jtag)]
        ELSE [d |-> d1, res |-> VersionCheck(d1.hw, d1.jtag)]

get_target_voltage(d) ==
    LET w == DeviceWrite(d, <<"GET_TARGET_VOLTAGE">>)
    IN  IF ~w.ok THEN [d |-> w.d, res |-> "USB"]
        ELSE IF d.a0 # 0 THEN [d |-> w.d, res |-> "Ok"]
        ELSE [d |-> w.d, res |-> "VoltageDivisionByZero"]

\* the tail of init, after idle mode has been entered
InitVersion(d) ==
    LET v == get_version(d)
    IN  IF v.res # "Ok" THEN v ELSE get_target_voltage(v.d)

\* (variant: the reset and the second attempt follow any error)
init_ResetOnAnyError(d, reset_ok) ==
    LET e == enter_idle(d)
    IN  IF e.res = "Ok" THEN InitVersion(e.d)
        ELSE LET dr == [e.d EXCEPT
                          !.cmds = Append(@, <<"USB_RESET">>),
                          !.io = Append(@, IF reset_ok THEN "ResetOk" ELSE "UsbErr")]
             IN  IF ~reset_ok THEN [d |-> dr, res |-> "USB"]
                 ELSE LET e2 == enter_idle(dr)
                      IN  IF e2.res # "Ok" THEN e2 ELSE InitVersion(e2.d)

init(d, reset_ok) ==
    LET e == enter_idle(d)
    IN  IF e.res = "Ok" THEN InitVersion(e.d)
        ELSE IF e.res = "USB"
             THEN LET dr == [e.d EXCEPT   \* self.device.reset()
                               !.cmds = Append(@, <<"USB_RESET">>),
                               !.io = Append(@, IF reset_ok THEN "ResetOk" ELSE "UsbErr")]
                  IN  IF ~reset_ok THEN [d |-> dr, res |-> "USB"]
                      ELSE LET e2 == enter_idle(dr)
                           IN  IF e2.res # "Ok" THEN e2 ELSE InitVersion(e2.d)
        ELSE e

\* impl Drop for STLink: the result of enter_idle is ignored
drop(d) == enter_idle(d).d

\* (variant: the gate applies to every port)
DapAddrOk_AnyPort(port, addr) ==
    ((addr \div 16) % 16) = 0

\* (variant: the gate looks at the low nibble of the address)
DapAddrOk_LowNibble(port, addr) ==
    (addr % 16) = 0 \/ port.kind # "DebugPort"

\* (addr & 0xf0) == 0 || port != Port::DebugPort
DapAddrOk(port, addr) ==
    ((addr \div 16) % 16) = 0 \/ port.kind # "DebugPort"

PortNumber(port) == IF port.kind = "DebugPort" THEN 65535 ELSE port.n

\* what the probe puts in bytes 4..8 of a JTAG_READ_DAP_REG reply
ProbeRegValue(port, addr) == 4096 + (PortNumber(port) % 256) * 16 + (addr % 16)

\* val: {} with an Err, {v} with Ok(v)
read_register(d, port, addr) ==
    IF DapAddrOk(port, addr)
    THEN LET p == PortNumber(port)
             cmd == <<"JTAG_COMMAND", "JTAG_READ_DAP_REG",
                      ByteOf(p, 0), ByteOf(p, 1), ByteOf(addr, 0), ByteOf(addr, 1)>>
             w == DeviceWrite(d, cmd)
         IN  IF ~w.ok THEN [d |-> w.d, res |-> "USB", val |-> {}]
             ELSE IF check_status(w.status) # "Ok"
                  THEN [d |-> w.d, res |-> check_status(w.status), val |-> {}]
             ELSE [d |-> w.d, res |-> "Ok", val |-> {ProbeRegValue(port, addr)}]
    ELSE [d |-> d, res |-> "BlanksNotAllowedOnDPRegister", val |-> {}]

write_register(d, port, addr, value) ==
    IF DapAddrOk(port, addr)
    THEN LET p == PortNumber(port)
             cmd == <<"JTAG_COMMAND", "JTAG_WRITE_DAP_REG",
                      ByteOf(p, 0), ByteOf(p, 1), ByteOf(addr, 0), ByteOf(addr, 1),
                      ByteOf(value, 0), ByteOf(value, 1),
                      ByteOf(value, 2), ByteOf(value, 3)>>
             w == DeviceWrite(d, cmd)
         IN  IF ~w.ok THEN [d |-> w.d, res |-> "USB"]
             ELSE [d |-> w.d, res |-> check_status(w.status)]
    ELSE [d |-> d, res |-> "BlanksNotAllowedOnDPRegister"]

\* Ctrl::ADDRESS and the Ctrl value with CSYSPWRUPREQ (bit 30) and
\* CDBGPWRUPREQ (bit 28) set
CtrlAddress == 4
CtrlPowerUp == 2 ^ 30 + 2 ^ 28

DebugPort == [kind |-> "DebugPort", n |-> 0]
AccessPortN(n) == [kind |-> "AccessPort", n |-> n]

\* (variant: SWD is entered whatever protocol is asked for)
attach_EnterSwd(d, popt) ==
    LET e == enter_idle(d)
        param == "JTAG_ENTER_SWD"
        proto == IF popt = {} THEN "Swd" ELSE CHOOSE p \in popt : TRUE
    IN  IF e.res # "Ok" THEN [d |-> e.d, res |-> e.res, val |-> "none"]
        ELSE LET w == DeviceWrite(e.d, <<"JTAG_COMMAND", "JTAG_ENTER2", param, 0>>)
             IN  IF ~w.ok THEN [d |-> w.d, res |-> "USB", val |-> "none"]
                 ELSE IF check_status(w.status) # "Ok"
                      THEN [d |-> w.d, res |-> check_status(w.status), val |-> "none"]
                 ELSE LET r == write_register(w.d, DebugPort, CtrlAddress, CtrlPowerUp)
                      IN  IF r.res # "Ok" THEN [d |-> r.d, res |-> r.res, val |-> "none"]
                          ELSE [d |-> [r.d EXCEPT !.protocol = proto],
                                res |-> "Ok", val |-> proto]

\* (variant: the protocol is stored before the probe is told to enter it)
attach_ProtocolFirst(d, popt) ==
    LET param == IF popt = {"Jtag"} THEN "JTAG_ENTER_JTAG_NO_CORE_RESET"
                 ELSE "JTAG_ENTER_SWD"
        proto == IF popt = {} THEN "Swd" ELSE CHOOSE p \in popt : TRUE
        e == enter_idle([d EXCEPT !.protocol = proto])
    IN  IF e.res # "Ok" THEN [d |-> e.d, res |-> e.res, val |-> "none"]
        ELSE LET w == DeviceWrite(e.d, <<"JTAG_COMMAND", "JTAG_ENTER2", param, 0>>)
             IN  IF ~w.ok THEN [d |-> w.d, res |-> "USB", val |-> "none"]
                 ELSE IF check_status(w.status) # "Ok"
                      THEN [d |-> w.d, res |-> check_status(w.status), val |-> "none"]
                 ELSE LET r == write_register(w.d, DebugPort, CtrlAddress, CtrlPowerUp)
                      IN  IF r.res # "Ok" THEN [d |-> r.d, res |-> r.res, val |-> "none"]
                          ELSE [d |-> r.d, res |-> "Ok", val |-> proto]

\* protocol: {} is None, {p} is Some(p)
attach(d, popt) ==
    LET e == enter_idle(d)
        param == IF popt = {"Jtag"} THEN "JTAG_ENTER_JTAG_NO_CORE_RESET"
                 ELSE "JTAG_ENTER_SWD"
        proto == IF popt = {} THEN "Swd" ELSE CHOOSE p \in popt : TRUE
    IN  IF e.res # "Ok" THEN [d |-> e.d, res |-> e.res, val |-> "none"]
        ELSE LET w == DeviceWrite(e.d, <<"JTAG_COMMAND", "JTAG_ENTER2", param, 0>>)
             IN  IF ~w.ok THEN [d |-> w.d, res |-> "USB", val |-> "none"]
                 ELSE IF check_status(w.status) # "Ok"
                      THEN [d |-> w.d, res |-> check_status(w.status), val |-> "none"]
                 ELSE LET r == write_register(w.d, DebugPort, CtrlAddress, CtrlPowerUp)
                      IN  IF r.res # "Ok" THEN [d |-> r.d, res |-> r.res, val |-> "none"]
                          ELSE [d |-> [r.d EXCEPT !.protocol = proto],
                                res |-> "Ok", val |-> proto]

detach(d) == enter_idle(d)

target_reset(d) ==
    LET w == DeviceWrite(d, <<"JTAG_COMMAND", "JTAG_DRIVE_NRST", "JTAG_DRIVE_NRST_PULSE">>)
    IN  IF ~w.ok THEN [d |-> w.d, res |-> "USB"]
        ELSE [d |-> w.d, res |-> check_status(w.status)]

\* frequency as u8: the discriminant of the enum value
set_swd_frequency(d, frequency) ==
    LET w == DeviceWrite(d, <<"JTAG_COMMAND", "SWD_SET_FREQ", AsU8(frequency)>>)
    IN  IF ~w.ok THEN [d |-> w.d, res |-> "USB"]
        ELSE [d |-> w.d, res |-> check_status(w.status)]

set_jtag_frequency(d, frequency) ==
    LET w == DeviceWrite(d, <<"JTAG_COMMAND", "JTAG_SET_FREQ", AsU8(frequency)>>)
    IN  IF ~w.ok THEN [d |-> w.d, res |-> "USB"]
        ELSE [d |-> w.d, res |-> check_status(w.status)]

drive_nreset(d, is_asserted) ==
    LET state == IF is_asserted THEN "JTAG_DRIVE_NRST_LOW" ELSE "JTAG_DRIVE_NRST_HIGH"
        w == DeviceWrite(d, <<"JTAG_COMMAND", "JTAG_DRIVE_NRST", state>>)
    IN  IF ~w.ok THEN [d |-> w.d, res |-> "USB"]
        ELSE [d |-> w.d, res |-> check_status(w.status)]

\* (variant: multi-AP commands are allowed from the minimum firmware on)
MultiApSupported_FromMin(jtag) == ~(jtag < MIN_JTAG_VERSION)

MultiApSupported(jtag) == ~(jtag < MIN_JTAG_VERSION_MULTI_AP)

open_ap(d, apsel) ==
    IF ~MultiApSupported(d.jtag)
    THEN [d |-> d, res |-> "JTagDoesNotSupportMultipleAP"]
    ELSE LET w == DeviceWrite(d, <<"JTAG_COMMAND", "JTAG_INIT_AP", apsel, "JTAG_AP_NO_CORE">>)
         IN  IF ~w.ok THEN [d |-> w.d, res |-> "USB"]
             ELSE [d |-> w.d, res |-> check_status(w.status)]

close_ap(d, apsel) ==
    IF ~MultiApSupported(d.jtag)
    THEN [d |-> d, res |-> "JTagDoesNotSupportMultipleAP"]
    ELSE LET w == DeviceWrite(d, <<"JTAG_COMMAND", "JTAG_CLOSE_AP_DBG", apsel>>)
         IN  IF ~w.ok THEN [d |-> w.d, res |-> "USB"]
             ELSE [d |-> w.d, res |-> check_status(w.status)]

\* ---- state and actions ----
\* the name of a command: the sub-command of a JTAG/DFU/SWIM command
CmdName(cmd) ==
    IF cmd[1] \in {"JTAG_COMMAND", "DFU_COMMAND", "SWIM_COMMAND"} THEN cmd[2] ELSE cmd[1]
CmdNames(cmds) == {CmdName(cmds[i]) : i \in 1..Len(cmds)}

\* the record a call starts from
Driver(orc) ==
    [ hw |-> hw_version, jtag |-> jtag_version, protocol |-> protocol,
      mode |-> dev.mode, version |-> dev.version, ext_jtag |-> dev.ext_jtag,
      a0 |-> dev.a0, cmds |-> <<>>, io |-> <<>>, orc |-> orc ]

\* store the struct and the probe as the call left them, and log the call
Commit(d, call) ==
    /\ hw_version' = d.hw
    /\ jtag_version' = d.jtag
    /\ protocol' = d.protocol
    /\ dev' = [dev EXCEPT !.mode = d.mode]
    /\ last' = call @@ [cmds |-> d.cmds, io |-> d.io]

\* GET_VERSION reply, bytes 0-1 big endian: [15:12] hw, [11:6] jtag, [5:0] swim
VersionWord(hw, jtag, swim) == hw * 4096 + jtag * 64 + swim

\* hardware V2 with JTAG versions around the two minimums, and hardware V3,
\* whose JTAG version comes from GET_VERSION_EXT
ProbeVersions ==
    { [version |-> VersionWord(2, j, 7), ext_jtag |-> 0, a0 |-> 1] :
        j \in {0, 20, 23, 24, 27, 28} }
    \cup
    { [version |-> VersionWord(3, j, 0), ext_jtag |-> e, a0 |-> 1] :
        j \in {0, 20}, e \in {0, 7, 28} }
    \cup
    { [version |-> VersionWord(2, 28, 7), ext_jtag |-> 0, a0 |-> 0] }

\* the outcomes of the device.write calls of one driver call that ends at the
\* first USB error: what follows that error is never looked at
Oracles(n) ==
    { o \in [1..n -> Outcomes] : \A i \in 1..(n - 1) : o[i] = "UsbErr" => o[i + 1] = "UsbErr" }

StlInit ==
    /\ stl_pc = "closed"
    /\ hw_version = 0
    /\ jtag_version = 0
    /\ protocol = "Swd"
    /\ dev \in { [mode |-> m, version |-> v.version, ext_jtag |-> v.ext_jtag, a0 |-> v.a0] :
                 m \in 0..4, v \in ProbeVersions }
    /\ last = [op |-> "none", res |-> "none", cmds |-> <<>>, io |-> <<>>]

StlIdle ==
    /\ stl_pc = "closed"
    /\ hw_version = 0
    /\ jtag_version = 0
    /\ protocol = "Swd"
    /\ dev = [mode |-> 1, version |-> VersionWord(2, 28, 7), ext_jtag |-> 0, a0 |-> 1]
    /\ last = [op |-> "none", res |-> "none", cmds |-> <<>>, io |-> <<>>]

\* DebugProbe::new_from_probe_info.  When init fails the half-built STLink is
\* dropped on the way out, which runs Drop.  ninit is the number of commands
\* init itself sent; what follows them in cmds is the work of Drop.
new_from_probe_info(d, open_ok, reset_ok) ==
    IF ~open_ok THEN [d |-> d, res |-> "USB", ninit |-> 0]
    ELSE LET r == init(d, reset_ok)
         IN  IF r.res # "Ok"
             THEN [d |-> drop(r.d), res |-> r.res, ninit |-> Len(r.d.cmds)]
             ELSE [d |-> r.d, res |-> "Ok", ninit |-> Len(r.d.cmds)]

NewFromProbeInfo ==
    /\ stl_pc = "closed"
    /\ \E open_ok \in BOOLEAN, reset_ok \in BOOLEAN, orc \in [1..9 -> PlainOutcomes] :
         \E n \in {new_from_probe_info(Driver(orc), open_ok, reset_ok)} :
             /\ stl_pc' = IF n.res = "Ok" THEN "open" ELSE "failed"
             /\ Commit(n.d, [op |-> "new", res |-> n.res, ninit |-> n.ninit])
    /\ UNCHANGED outside_stl

Attach ==
    /\ stl_pc = "open"
    /\ \E popt \in {{}, {"Swd"}, {"Jtag"}}, orc \in Oracles(4) :
         \E r \in {attach(Driver(orc), popt)} :
             Commit(r.d, [op |-> "attach", res |-> r.res, arg |-> popt, val |-> r.val])
    /\ UNCHANGED <<stl_pc, outside_stl>>

Detach ==
    /\ stl_pc = "open"
    /\ \E orc \in Oracles(2) :
         \E r \in {detach(Driver(orc))} :
             Commit(r.d, [op |-> "detach", res |-> r.res])
    /\ UNCHANGED <<stl_pc, outside_stl>>

TargetReset ==
    /\ stl_pc = "open"
    /\ \E orc \in Oracles(1) :
         \E r \in {target_reset(Driver(orc))} :
             Commit(r.d, [op |-> "target_reset", res |-> r.res])
    /\ UNCHANGED <<stl_pc, outside_stl>>

DapPorts == {DebugPort, AccessPortN(1)}
\* 0x00, 0x04, 0x10, 0x14, 0x100
DapAddrs == {0, 4, 16, 20, 256}
DapValues == {0, CtrlPowerUp}

ReadRegister ==
    /\ stl_pc = "open"
    /\ \E port \in DapPorts, addr \in DapAddrs, orc \in Oracles(1) :
         \E r \in {read_register(Driver(orc), port, addr)} :
             Commit(r.d, [op |-> "read_register", res |-> r.res,
                          port |-> port, addr |-> addr, val |-> r.val])
    /\ UNCHANGED <<stl_pc, outside_stl>>

WriteRegister ==
    /\ stl_pc = "open"
    /\ \E port \in DapPorts, addr \in DapAddrs, value \in DapValues,
          orc \in Oracles(1) :
         \E r \in {write_register(Driver(orc), port, addr, value)} :
             Commit(r.d, [op |-> "write_register", res |-> r.res,
                          port |-> port, addr |-> addr, value |-> value])
    /\ UNCHANGED <<stl_pc, outside_stl>>

OpenAp ==
    /\ stl_pc = "open"
    /\ \E apsel \in {0, 1}, orc \in Oracles(1) :
         \E r \in {open_ap(Driver(orc), apsel)} :
             Commit(r.d, [op |-> "open_ap", res |-> r.res, apsel |-> apsel])
    /\ UNCHANGED <<stl_pc, outside_stl>>

CloseAp ==
    /\ stl_pc = "open"
    /\ \E apsel \in {0, 1}, orc \in Oracles(1) :
         \E r \in {close_ap(Driver(orc), apsel)} :
             Commit(r.d, [op |-> "close_ap", res |-> r.res, apsel |-> apsel])
    /\ UNCHANGED <<stl_pc, outside_stl>>

\* the frequencies a caller may ask for, as enum discriminants
SwdFrequencies == {0, 1}
JtagFrequencies == {2, 4}

SetSwdFrequency ==
    /\ stl_pc = "open"
    /\ \E frequency \in SwdFrequencies, orc \in Oracles(1) :
         \E r \in {set_swd_frequency(Driver(orc), frequency)} :
             Commit(r.d, [op |-> "set_swd_frequency", res |-> r.res,
                          frequency |-> frequency])
    /\ UNCHANGED <<stl_pc, outside_stl>>

SetJtagFrequency ==
    /\ stl_pc = "open"
    /\ \E frequency \in JtagFrequencies, orc \in Oracles(1) :
         \E r \in {set_jtag_frequency(Driver(orc), frequency)} :
             Commit(r.d, [op |-> "set_jtag_frequency", res |-> r.res,
                          frequency |-> frequency])
    /\ UNCHANGED <<stl_pc, outside_stl>>

DriveNreset ==
    /\ stl_pc = "open"
    /\ \E is_asserted \in BOOLEAN, orc \in Oracles(1) :
         \E r \in {drive_nreset(Driver(orc), is_asserted)} :
             Commit(r.d, [op |-> "drive_nreset", res |-> r.res,
                          is_asserted |-> is_asserted])
    /\ UNCHANGED <<stl_pc, outside_stl>>

Drop ==
    /\ stl_pc = "open"
    /\ stl_pc' = "dropped"
    /\ \E orc \in Oracles(2) :
         \E dd \in {drop(Driver(orc))} :
             Commit(dd, [op |-> "drop", res |-> "none"])
    /\ UNCHANGED outside_stl

(***************************************************************************)
(* cargo-flash                                                             *)
(*                                                                         *)
(* main_try is followed step by step.  Calls into code outside these       *)
(* sources (cargo, the DAPLink driver, the ROM table reader, the registry, *)
(* the flash loader, the core, the GDB server) return Ok or Err as the     *)
(* environment decides; the ST-Link calls are those of the driver above.   *)
(* cf_log lists the calls made, and the commands sent to an ST-Link, in    *)
(* order, each with its result.                                            *)
(***************************************************************************)
CfOpts ==
    [ nrf_recover : BOOLEAN, list_chips : BOOLEAN, gdb : BOOLEAN,
      no_download : BOOLEAN, reset_halt : BOOLEAN ]

\* ExitStatus of the child: code() and signal() as options
NoStatus == [code |-> {}, signal |-> {}]
BuildStatuses(unix) ==
    { [code |-> {c}, signal |-> {}] : c \in {0, 1, 101} }
    \cup (IF unix THEN { [code |-> {}, signal |-> {9}] } ELSE {})
success(status) == status.code = {0}

OptVal(o) == CHOOSE x \in o : TRUE

\* (variant: every failed build ends the process with code 1)
handle_failed_command_One(status, unix) == 1

\* the code handle_failed_command exits with; the unix build falls back on
\* the signal number, the others do not
handle_failed_command(status, unix) ==
    IF status.code # {} THEN OptVal(status.code)
    ELSE IF unix /\ status.signal # {} THEN OptVal(status.signal)
    ELSE 1

\* (variant: the process ends with code 0 whatever main_try returned)
main_ExitZero(result, stderr) ==
    IF result = "Ok" THEN [stderr |-> stderr, exit |-> 0]
    ELSE [stderr |-> Append(stderr, result), exit |-> 0]

\* fn main: what is printed and the exit code, given what main_try returned
main(result, stderr) ==
    IF result = "Ok" THEN [stderr |-> stderr, exit |-> 0]
    ELSE [stderr |-> Append(stderr, result), exit |-> 1]

\* (variant: the two resets are exchanged)
ResetOp_Swapped(opt) == IF opt.reset_halt THEN "reset" ELSE "reset_and_halt"

\* the reset applied after the download
ResetOp(opt) == IF opt.reset_halt THEN "reset_and_halt" ELSE "reset"

\* the commands a driver call sent, with their outcomes, as log entries
CmdLog(d) == [i \in 1..Len(d.cmds) |-> <<CmdName(d.cmds[i]), d.io[i]>>]

\* the STLink that main_try owns at this point, if any
CfLink == IF stl_pc = "open" THEN {Driver(<<>>)} ELSE {}

\* main_try returns `result`: its locals are dropped, which for an STLink
\* runs Drop, and main ends the process
CfReturn(result, log, stderr, link) ==
    /\ cf_pc' = "exited"
    /\ cf_stderr' = main(result, stderr).stderr
    /\ cf_exit' = {main(result, stderr).exit}
    /\ IF link = {}
       THEN /\ cf_log' = log
            /\ UNCHANGED stl_vars
       ELSE \E d \in link, orc \in Oracles(2) :
              \E dd \in {drop([d EXCEPT !.cmds = <<>>, !.io = <<>>, !.orc = orc])} :
                  /\ stl_pc' = "dropped"
                  /\ Commit(dd, [op |-> "drop", res |-> "none"])
                  /\ cf_log' = log \o CmdLog(dd)

\* main_try goes on to its next step
CfGoto(pc, log) ==
    /\ cf_pc' = pc
    /\ cf_log' = log
    /\ UNCHANGED <<cf_stderr, cf_exit>>

CfIdle ==
    /\ cf_pc = "idle"
    /\ cf_opt = [nrf_recover |-> FALSE, list_chips |-> FALSE, gdb |-> FALSE,
                 no_download |-> FALSE, reset_halt |-> FALSE]
    /\ cf_status = NoStatus
    /\ cf_probe = "none"
    /\ cf_log = <<>>
    /\ cf_stderr = <<>>
    /\ cf_exit = {}

CfInit ==
    /\ cf_pc = "start"
    /\ cf_opt \in CfOpts
    /\ cf_status = NoStatus
    /\ cf_probe = "none"
    /\ cf_log = <<>>
    /\ cf_stderr = <<>>
    /\ cf_exit = {}

\* (variant: --list-chips is not looked at and the build is started)
CfStart_BuildAnyway ==
    /\ cf_pc = "start"
    /\ CfGoto("build", cf_log)
    /\ UNCHANGED <<cf_opt, cf_status, cf_probe, stl_vars, outside_cf>>

\* Opt::from_iter and --list-chips
CfStart ==
    /\ cf_pc = "start"
    /\ IF cf_opt.list_chips
       THEN /\ cf_pc' = "exited"
            /\ cf_log' = Append(cf_log, <<"print_families", "Ok">>)
            /\ cf_exit' = {0}
            /\ UNCHANGED cf_stderr
       ELSE CfGoto("build", cf_log)
    /\ UNCHANGED <<cf_opt, cf_status, cf_probe, stl_vars, outside_cf>>

\* cargo build: spawn, wait, and the exit on an unsuccessful status
CfBuild ==
    /\ cf_pc = "build"
    /\ \E ran \in BOOLEAN, unix \in BOOLEAN :
         IF ~ran
         THEN /\ CfReturn("cargo_build", Append(cf_log, <<"cargo_build", "Err">>),
                          cf_stderr, {})
              /\ UNCHANGED cf_status
         ELSE \E status \in BuildStatuses(unix) :
                /\ cf_status' = status
                /\ IF ~success(status)
                   THEN /\ cf_pc' = "exited"
                        /\ cf_log' = Append(cf_log, <<"cargo_build", "Failed">>)
                        /\ cf_exit' = {handle_failed_command(status, unix)}
                        /\ UNCHANGED <<cf_stderr, stl_vars>>
                   ELSE /\ CfGoto("project", Append(cf_log, <<"cargo_build", "Ok">>))
                        /\ UNCHANGED stl_vars
    /\ UNCHANGED <<cf_opt, cf_probe, outside_cf>>

\* Project::query and project.path
CfProject ==
    /\ cf_pc = "project"
    /\ \E query_ok \in BOOLEAN, path_ok \in BOOLEAN :
         LET l1 == Append(cf_log, <<"project_query", IF query_ok THEN "Ok" ELSE "Err">>)
             l2 == Append(l1, <<"project_path", IF path_ok THEN "Ok" ELSE "Err">>)
         IN  IF ~query_ok THEN CfReturn("project_query", l1, cf_stderr, {})
             ELSE IF ~path_ok THEN CfReturn("project_path", l2, cf_stderr, {})
             ELSE CfGoto("probe", l2) /\ UNCHANGED stl_vars
    /\ UNCHANGED <<cf_opt, cf_status, cf_probe, outside_cf>>

\* the DAPLinks, then the ST-Links; list.pop() takes the last one
CfListProbes ==
    /\ cf_pc = "probe"
    /\ \E nd \in 0..1, ns \in 0..1 :
         LET list == [i \in 1..nd |-> "DAPLink"] \o [i \in 1..ns |-> "STLink"]
             l1 == Append(cf_log, <<"list_probes", IF list = <<>> THEN "Err" ELSE "Ok">>)
         IN  IF list = <<>>
             THEN CfReturn("list_probes", l1, cf_stderr, {}) /\ UNCHANGED cf_probe
             ELSE /\ cf_probe' = list[Len(list)]
                  /\ CfGoto("open", l1)
                  /\ UNCHANGED stl_vars
    /\ UNCHANGED <<cf_opt, cf_status, outside_cf>>

\* DAPLink::new_from_probe_info / STLink::new_from_probe_info
CfOpen ==
    /\ cf_pc = "open"
    /\ IF cf_probe = "DAPLink"
       THEN \E ok \in BOOLEAN :
              IF ok THEN CfGoto("attach", Append(cf_log, <<"daplink_new", "Ok">>))
                         /\ UNCHANGED stl_vars
              ELSE CfReturn("daplink_new", Append(cf_log, <<"daplink_new", "Err">>),
                            cf_stderr, {})
       ELSE \E open_ok \in BOOLEAN, reset_ok \in BOOLEAN, orc \in [1..9 -> PlainOutcomes] :
              \E n \in {new_from_probe_info(Driver(orc), open_ok, reset_ok)} :
              LET l1 == cf_log \o CmdLog(n.d)
                           \o << <<"stlink_new", IF n.res = "Ok" THEN "Ok" ELSE "Err">> >>
              IN  /\ stl_pc' = IF n.res = "Ok" THEN "open" ELSE "failed"
                  /\ Commit(n.d, [op |-> "new", res |-> n.res, ninit |-> n.ninit])
                  /\ IF n.res = "Ok" THEN CfGoto("attach", l1)
                     ELSE /\ cf_pc' = "exited"
                          /\ cf_log' = l1
                          /\ cf_stderr' = main("stlink_new", cf_stderr).stderr
                          /\ cf_exit' = {main("stlink_new", cf_stderr).exit}
    /\ UNCHANGED <<cf_opt, cf_status, cf_probe, outside_cf>>

\* link.attach(Some(WireProtocol::Swd))
CfAttach ==
    /\ cf_pc = "attach"
    /\ IF cf_probe = "DAPLink"
       THEN \E ok \in BOOLEAN :
              IF ok THEN CfGoto("nrf", Append(cf_log, <<"daplink_attach", "Ok">>))
                         /\ UNCHANGED stl_vars
              ELSE CfReturn("daplink_attach", Append(cf_log, <<"daplink_attach", "Err">>),
                            cf_stderr, {})
       ELSE \E orc \in Oracles(4) :
              \E r \in {attach(Driver(orc), {"Swd"})} :
              LET l1 == cf_log \o CmdLog(r.d)
                           \o << <<"stlink_attach", IF r.res = "Ok" THEN "Ok" ELSE "Err">> >>
              IN  IF r.res = "Ok"
                  THEN /\ Commit(r.d, [op |-> "attach", res |-> r.res,
                                       arg |-> {"Swd"}, val |-> r.val])
                       /\ CfGoto("nrf", l1)
                       /\ UNCHANGED stl_pc
                  ELSE CfReturn("stlink_attach", l1, cf_stderr, {r.d})
    /\ UNCHANGED <<cf_opt, cf_status, cf_probe, outside_cf>>

\* if opt.nrf_recover: nrf_recover() on a DAPLink, an error on an ST-Link
CfNrfRecover ==
    /\ cf_pc = "nrf"
    /\ IF ~cf_opt.nrf_recover
       THEN CfGoto("identify", cf_log) /\ UNCHANGED stl_vars
       ELSE IF cf_probe = "DAPLink"
       THEN \E ok \in BOOLEAN :
              IF ok THEN CfGoto("identify", Append(cf_log, <<"nrf_recover", "Ok">>))
                         /\ UNCHANGED stl_vars
              ELSE CfReturn("nrf_recover", Append(cf_log, <<"nrf_recover", "Err">>),
                            cf_stderr, {})
       ELSE CfReturn("nrf_recover_stlink",
                     Append(cf_log, <<"nrf_recover_stlink", "Err">>), cf_stderr, CfLink)
    /\ UNCHANGED <<cf_opt, cf_status, cf_probe, outside_cf>>

\* the selection strategy: --chip, or else the ROM table read through the probe
CfIdentify ==
    /\ cf_pc = "identify"
    /\ \E chip \in BOOLEAN, ok \in BOOLEAN :
         IF chip THEN CfGoto("target", cf_log) /\ UNCHANGED stl_vars
         ELSE IF ok THEN CfGoto("target", Append(cf_log, <<"read_from_rom_table", "Ok">>))
                         /\ UNCHANGED stl_vars
         ELSE CfReturn("read_from_rom_table",
                       Append(cf_log, <<"read_from_rom_table", "Err">>), cf_stderr, CfLink)
    /\ UNCHANGED <<cf_opt, cf_status, cf_probe, outside_cf>>

\* the registry, --chip-description-path, get_target and Session::new
CfTarget ==
    /\ cf_pc = "target"
    /\ \E cdp \in BOOLEAN, yaml_ok \in BOOLEAN, ok \in BOOLEAN :
         LET l1 == IF cdp
                   THEN Append(cf_log, <<"add_target_from_yaml",
                                         IF yaml_ok THEN "Ok" ELSE "Err">>)
                   ELSE cf_log
             l2 == Append(l1, <<"get_target", IF ok THEN "Ok" ELSE "Err">>)
         IN  IF cdp /\ ~yaml_ok
             THEN CfReturn("add_target_from_yaml", l1, cf_stderr, CfLink)
             ELSE IF ~ok THEN CfReturn("get_target", l2, cf_stderr, CfLink)
             ELSE CfGoto("flash", l2) /\ UNCHANGED stl_vars
    /\ UNCHANGED <<cf_opt, cf_status, cf_probe, outside_cf>>

\* if !opt.no_download: download_file_with_progress_reporting
CfFlash ==
    /\ cf_pc = "flash"
    /\ IF cf_opt.no_download
       THEN CfGoto("reset", cf_log) /\ UNCHANGED stl_vars
       ELSE \E ok \in BOOLEAN :
              IF ok THEN CfGoto("reset", Append(cf_log, <<"download", "Ok">>))
                         /\ UNCHANGED stl_vars
              ELSE CfReturn("download", Append(cf_log, <<"download", "Err">>),
                            cf_stderr, CfLink)
    /\ UNCHANGED <<cf_opt, cf_status, cf_probe, outside_cf>>

\* core.reset_and_halt or core.reset
CfReset ==
    /\ cf_pc = "reset"
    /\ \E ok \in BOOLEAN :
         IF ok THEN CfGoto("gdb", Append(cf_log, <<ResetOp(cf_opt), "Ok">>))
                    /\ UNCHANGED stl_vars
         ELSE CfReturn(ResetOp(cf_opt), Append(cf_log, <<ResetOp(cf_opt), "Err">>),
                       cf_stderr, CfLink)
    /\ UNCHANGED <<cf_opt, cf_status, cf_probe, outside_cf>>

\* if opt.gdb: probe_rs_gdb_server::run, whose error is printed; then Ok(())
CfGdb ==
    /\ cf_pc = "gdb"
    /\ IF ~cf_opt.gdb
       THEN CfReturn("Ok", cf_log, cf_stderr, CfLink)
       ELSE \E ok \in BOOLEAN :
              IF ok THEN CfReturn("Ok", Append(cf_log, <<"gdb_run", "Ok">>),
                                  cf_stderr, CfLink)
              ELSE CfReturn("Ok", Append(cf_log, <<"gdb_run", "Err">>),
                            Append(cf_stderr, "gdb_run"), CfLink)
    /\ UNCHANGED <<cf_opt, cf_status, cf_probe, outside_cf>>

(***************************************************************************)
(* The arguments of cargo build                                            *)
(*                                                                         *)
(* main_try, from std::env::args() to Command::new("cargo").args(args).    *)
(* A string is kept as the sequence of its pieces, cut so that each string *)
(* the code compares an argument with, or looks for at its start, is a     *)
(* whole number of pieces: "--gdb-connection-string=h" is                  *)
(* <<"--gdb", "-connection-string", "=", "h">>.  starts_with is then the   *)
(* prefix relation of sequences and == their equality.                     *)
(***************************************************************************)
S_chip == <<"--chip">>
S_chip_description_path == <<"--chip", "-description-path">>
S_c == <<"-c">>
S_nrf_recover == <<"--nrf-recover">>
S_gdb == <<"--gdb">>
S_no_download == <<"--no-download">>
S_reset_halt == <<"--reset-halt">>
S_gdb_connection_string == <<"--gdb", "-connection-string">>
S_flash == <<"flash">>
\* name followed by '='
WithEq(name) == name \o <<"=">>

\* x.starts_with(prefix)
StartsWith(x, prefix) ==
    Len(x) >= Len(prefix) /\ SubSeq(x, 1, Len(prefix)) = prefix

\* args.iter().position(pred), with `hits` the strings that satisfy pred:
\* {} is None, {i} is Some(i); i counts from 1
Position(v, hits) ==
    LET found == {i \in 1..Len(v) : v[i] \in hits}
    IN  IF found = {} THEN {}
        ELSE {CHOOSE i \in found : \A j \in found : i <= j}

\* A Vec<String> in main_try: v is the vector, and panic tells that a
\* remove was out of bounds, which ends the process there.
\* args.remove(index)
Remove(a, index) ==
    IF a.panic THEN a
    ELSE IF index > Len(a.v) THEN [v |-> a.v, panic |-> TRUE]
    ELSE [v |-> SubSeq(a.v, 1, index - 1) \o SubSeq(a.v, index + 1, Len(a.v)),
          panic |-> FALSE]

\* if let Some(index) = args.iter().position(|x| *x == name)
\*     { args.remove(index); args.remove(index); }
RemoveWithValue(a, name) ==
    LET pos == Position(a.v, {name})
    IN  IF a.panic \/ pos = {} THEN a
        ELSE Remove(Remove(a, OptVal(pos)), OptVal(pos))

\* if let Some(index) = args.iter().position(|x| x.starts_with(prefix))
\*     { args.remove(index); }
RemoveStartingWith(a, prefix) ==
    LET pos == Position(a.v, {x \in {a.v[i] : i \in 1..Len(a.v)} : StartsWith(x, prefix)})
    IN  IF a.panic \/ pos = {} THEN a
        ELSE Remove(a, OptVal(pos))

\* the arguments main_try works on: without the binary name when the
\* first argument after it is `flash`
collect_args(env) ==
    IF Len(env) >= 2 /\ env[2] = S_flash THEN Tail(env) ELSE env

\* lines 118-182: the removals, in the order of the source
strip_args(args) ==
    LET a0 == Remove([v |-> args, panic |-> FALSE], 1)
        a1 == RemoveWithValue(a0, S_chip)
        a2 == RemoveStartingWith(a1, WithEq(S_chip))
        a3 == RemoveWithValue(a2, S_chip_description_path)
        a4 == RemoveStartingWith(a3, WithEq(S_chip_description_path))
        a5 == RemoveWithValue(a4, S_c)
        a6 == RemoveStartingWith(a5, WithEq(S_c))
        a7 == RemoveStartingWith(a6, S_nrf_recover)
        a8 == RemoveStartingWith(a7, S_gdb)
        a9 == RemoveStartingWith(a8, S_no_download)
        a10 == RemoveStartingWith(a9, S_reset_halt)
    IN  RemoveStartingWith(a10, S_gdb_connection_string)

\* ---- inputs ----
\* A command line that Opt::from_iter accepts, without --list-chips: each
\* option of Opt at most once, an option that takes a value with its value,
\* either as the next argument or after '='.  opt names the field of Opt.
ArgItems ==
    { [opt |-> "chip", args |-> a] :
        a \in { <<S_chip, <<"nrf52">> >>, << WithEq(S_chip) \o <<"nrf52">> >> } }
    \cup
    { [opt |-> "chip_description_path", args |-> a] :
        a \in { <<S_chip_description_path, <<"t.yaml">> >>,
                << WithEq(S_chip_description_path) \o <<"t.yaml">> >>,
                <<S_c, <<"t.yaml">> >>,
                << WithEq(S_c) \o <<"t.yaml">> >> } }
    \cup
    { [opt |-> "gdb_connection_string", args |-> a] :
        a \in { <<S_gdb_connection_string, <<"host:1337">> >>,
                << WithEq(S_gdb_connection_string) \o <<"host:1337">> >> } }
    \cup
    { [opt |-> "nrf_recover", args |-> <<S_nrf_recover>>],
      [opt |-> "gdb", args |-> <<S_gdb>>],
      [opt |-> "no_download", args |-> <<S_no_download>>],
      [opt |-> "reset_halt", args |-> <<S_reset_halt>>],
      [opt |-> "release", args |-> << <<"--release">> >>],
      [opt |-> "bin", args |-> << <<"--bin">>, <<"app">> >>] }

CommandLines ==
    { items \in UNION { [1..n -> ArgItems] : n \in 0..MaxArgItems } :
        \A i \in 1..Len(items), j \in 1..Len(items) :
            i # j => items[i].opt # items[j].opt }

RECURSIVE ArgsOf(_)
ArgsOf(items) ==
    IF items = <<>> THEN <<>> ELSE Head(items).args \o ArgsOf(Tail(items))

\* std::env::args(): the binary, `flash` when cargo runs it, the command line
EnvArgs ==
    { << <<"cargo-flash">> >> \o (IF by_cargo THEN <<S_flash>> ELSE <<>>) \o ArgsOf(items) :
        by_cargo \in BOOLEAN, items \in CommandLines }

NoBuildArgs == [v |-> <<>>, panic |-> FALSE]

ArgIdle ==
    /\ arg_pc = "idle"
    /\ argv = <<>>
    /\ build_args = NoBuildArgs

ArgInit ==
    /\ arg_pc = "call"
    /\ argv \in EnvArgs
    /\ build_args = NoBuildArgs

\* main_try up to the spawn of cargo build
BuildArgs ==
    /\ arg_pc = "call"
    /\ arg_pc' = "ret"
    /\ build_args' = strip_args(collect_args(argv))
    /\ UNCHANGED <<argv, outside_arg>>

(***************************************************************************)
(* Access port enumeration                                                 *)
(*                                                                         *)
(* The debug port is a table: for each port number the result of           *)
(* read_ap_register(port, IDR), [ok |-> FALSE] for Err and otherwise the   *)
(* IDR value.  A call is computed with the list of the ports it read.      *)
(***************************************************************************)
\* the last port number of (0..=255)
LastApPort == 255
ApPorts == 0..LastApPort

\* an absent port, AHB-AP and another access port
IdrValues == {0, 611778577, 42467328}
IdrResults == {[ok |-> FALSE, idr |-> 0]} \cup {[ok |-> TRUE, idr |-> v] : v \in IdrValues}

read_ap_register(dp, port) == dp[port]

\* (variant: any successful read makes the port valid)
access_port_is_valid_AnyIdr(dp, port) ==
    LET r == read_ap_register(dp, port)
    IN  IF r.ok THEN TRUE ELSE FALSE

access_port_is_valid(dp, port) ==
    LET r == read_ap_register(dp, port)
    IN  IF r.ok THEN r.idr # 0 ELSE FALSE

\* the range (0..=255) as the iterator yields it
PortRange == [i \in 1..(LastApPort + 1) |-> i - 1]

\* (0..=255).filter(..).collect(): filter hands every port to the closure,
\* which reads its IDR, and keeps the order
valid_access_ports(dp) ==
    LET valid(p) == access_port_is_valid(dp, p)
    IN  [ret |-> SelectSeq(PortRange, valid), reads |-> PortRange]

\* (variant: the search goes through all ports and keeps the last match)
get_ap_by_idr_Last(dp, f) ==
    LET hit(p) == LET r == read_ap_register(dp, p)
                  IN  IF r.ok THEN r.idr \in f ELSE FALSE
        hits == SelectSeq(PortRange, hit)
    IN  IF hits = <<>> THEN [ret |-> {}, reads |-> PortRange]
        ELSE [ret |-> {hits[Len(hits)]}, reads |-> PortRange]

\* (0..=255).find(..): find hands the ports to the closure, which reads the
\* IDR, one after the other and stops at the first for which it returns true.
\* f is the set of IDR values that the predicate accepts, ret is an option.
get_ap_by_idr(dp, f) ==
    LET hit(p) == LET r == read_ap_register(dp, p)
                  IN  IF r.ok THEN r.idr \in f ELSE FALSE
        hits == SelectSeq(PortRange, hit)
    IN  IF hits = <<>> THEN [ret |-> {}, reads |-> PortRange]
        ELSE [ret |-> {Head(hits)}, reads |-> SubSeq(PortRange, 1, Head(hits) + 1)]

LiveApPorts == (0..MaxLiveAp) \cup {LastApPort}
DebugPorts ==
    { [p \in ApPorts |-> IF p \in LiveApPorts THEN live[p] ELSE other] :
        live \in [LiveApPorts -> IdrResults],
        other \in {[ok |-> FALSE, idr |-> 0], [ok |-> TRUE, idr |-> 0]} }
IdrPredicates == SUBSET IdrValues
\* no debug port at all: a table without ports
NoDebugPort == <<>>
NoApCall == [op |-> "none", f |-> {}, ret |-> <<>>, reads |-> <<>>]

ApIdle ==
    /\ ap_pc = "idle"
    /\ ap_dp = NoDebugPort
    /\ ap_call = NoApCall

ApInit ==
    /\ ap_pc = "call"
    /\ ap_dp \in DebugPorts
    /\ ap_call = NoApCall

ValidAccessPorts ==
    /\ ap_pc = "call"
    /\ ap_pc' = "ret"
    /\ \E r \in {valid_access_ports(ap_dp)} :
         ap_call' = [op |-> "valid_access_ports", f |-> {},
                     ret |-> r.ret, reads |-> r.reads]
    /\ UNCHANGED <<ap_dp, outside_ap>>

GetApByIdr ==
    /\ ap_pc = "call"
    /\ ap_pc' = "ret"
    /\ \E f \in IdrPredicates :
         \E r \in {get_ap_by_idr(ap_dp, f)} :
           ap_call' = [op |-> "get_ap_by_idr", f |-> f,
                       ret |-> r.ret, reads |-> r.reads]
    /\ UNCHANGED <<ap_dp, outside_ap>>

(***************************************************************************)
(* GDB worker                                                              *)
(*                                                                         *)
(* Two threads: the packet loop of worker ("handler") and the thread it    *)
(* spawns to poll for a halt ("poller").  A step is what a thread does     *)
(* between two points where the other can be seen to interleave: taking a  *)
(* mutex, entering and leaving a core operation, dropping its guards.  A   *)
(* core operation that returns Err is unwrapped and panics its thread; a   *)
(* panic drops the guards the thread holds and leaves their mutexes        *)
(* poisoned, and lock().unwrap() on a poisoned mutex panics in turn.       *)
(***************************************************************************)
\* packets by the branch of the handler that takes them: is_valid() false,
\* '?', 'p', 'c' or 'vCont;c', 'vCont;t', 's' or 'vCont;s', 0x03, 'D'
PacketKinds == {"invalid", "query", "p", "c", "t", "s", "intr", "D"}

\* the core operations of a branch, in order
PacketOps(kind) ==
    IF kind = "p" THEN <<"halt", "wait_for_core_halted", "read_core_reg">>
    ELSE IF kind = "c" THEN <<"run">>
    ELSE IF kind = "t" THEN <<"halt", "wait_for_core_halted">>
    ELSE IF kind = "s" THEN <<"step">>
    ELSE IF kind = "intr" THEN <<"halt", "wait_for_core_halted">>
    ELSE <<>>

\* the response of a branch, as an option
PacketResponse(kind) ==
    IF kind = "query" THEN {"S05"}
    ELSE IF kind = "p" THEN {"regvalue"}
    ELSE IF kind = "c" THEN {}
    ELSE IF kind = "t" THEN {"OK"}
    ELSE IF kind = "s" THEN {"S05"}
    ELSE IF kind = "intr" THEN {"T05hwbreak:;"}
    ELSE {"OK"}

\* the branches that write awaits_halt
SetsAwaitsHalt(kind) == kind \in {"c", "t", "s"}

\* the core after an operation that returned Ok
CoreAfter(c, op) ==
    IF op = "run" THEN "running"
    ELSE IF op \in {"halt", "step", "wait_for_core_halted"} THEN "halted"
    ELSE c

\* the guards of thread t are dropped
Released(mutex, t) == IF mutex = t THEN "free" ELSE mutex
\* thread t panics: its guards are dropped and their mutexes poisoned
Panic(t) ==
    /\ session_mutex' = Released(session_mutex, t)
    /\ awaits_halt_mutex' = Released(awaits_halt_mutex, t)
    /\ poisoned' = poisoned \cup (IF session_mutex = t THEN {"session"} ELSE {})
                            \cup (IF awaits_halt_mutex = t THEN {"awaits_halt"} ELSE {})
    /\ in_dap' = in_dap \ {t}

PacketSeqs(n) == UNION { [1..k -> PacketKinds] : k \in 0..n }

GdbIdle ==
    /\ gw_pc = "idle"
    /\ poll_pc = "idle"
    /\ input_stream = <<>>
    /\ output_stream = <<>>
    /\ packet = "none"
    /\ core_ops = <<>>
    /\ break_due = FALSE
    /\ session_mutex = "free"
    /\ awaits_halt_mutex = "free"
    /\ poisoned = {}
    /\ awaits_halt = FALSE
    /\ core = "halted"
    /\ in_dap = {}
    /\ trace = <<>>

\* worker has spawned the polling thread and is about to enter its loop
GdbInit ==
    /\ gw_pc = "next"
    /\ poll_pc = "sleep"
    /\ input_stream \in PacketSeqs(MaxPackets)
    /\ output_stream = <<>>
    /\ packet = "none"
    /\ core_ops = <<>>
    /\ break_due = FALSE
    /\ session_mutex = "free"
    /\ awaits_halt_mutex = "free"
    /\ poisoned = {}
    /\ awaits_halt = FALSE
    /\ core \in {"halted", "running"}
    /\ in_dap = {}
    /\ trace = <<>>

\* ---- the packet loop ----
\* input_stream.next(): the next packet, or the end of the stream
GwNext ==
    /\ gw_pc = "next"
    /\ IF input_stream = <<>>
       THEN /\ gw_pc' = "returned"
            /\ UNCHANGED <<input_stream, packet, trace>>
       ELSE /\ packet' = Head(input_stream)
            /\ input_stream' = Tail(input_stream)
            /\ trace' = Append(trace, <<"recv", Head(input_stream), "client">>)
            /\ gw_pc' = IF Head(input_stream) = "invalid" THEN "next" ELSE "lock_session"
    /\ UNCHANGED <<poll_pc, output_stream, core_ops, break_due, session_mutex,
                   awaits_halt_mutex, poisoned, awaits_halt, core, in_dap, outside_gdb>>

\* session.lock().unwrap()
GwLockSession ==
    /\ gw_pc = "lock_session"
    /\ session_mutex = "free"
    /\ IF "session" \in poisoned
       THEN /\ gw_pc' = "panicked"
            /\ UNCHANGED <<session_mutex, core_ops>>
       ELSE /\ gw_pc' = "handle"
            /\ session_mutex' = "handler"
            /\ core_ops' = PacketOps(packet)
    /\ UNCHANGED <<poll_pc, input_stream, output_stream, packet, break_due,
                   awaits_halt_mutex, poisoned, awaits_halt, core, in_dap, trace,
                   outside_gdb>>

\* the handler calls its next core operation
GwOpBegin ==
    /\ gw_pc = "handle"
    /\ core_ops # <<>>
    /\ gw_pc' = "in_op"
    /\ in_dap' = in_dap \cup {"handler"}
    /\ UNCHANGED <<poll_pc, input_stream, output_stream, packet, core_ops, break_due,
                   session_mutex, awaits_halt_mutex, poisoned, awaits_halt, core,
                   trace,
                   outside_gdb>>

\* the operation returns; Err is unwrapped
GwOpEnd ==
    /\ gw_pc = "in_op"
    /\ \E ok \in BOOLEAN :
         IF ok
         THEN /\ gw_pc' = "handle"
              /\ core' = CoreAfter(core, Head(core_ops))
              /\ core_ops' = Tail(core_ops)
              /\ in_dap' = in_dap \ {"handler"}
              /\ UNCHANGED <<session_mutex, awaits_halt_mutex, poisoned>>
         ELSE /\ gw_pc' = "panicked"
              /\ Panic("handler")
              /\ UNCHANGED <<core, core_ops>>
    /\ UNCHANGED <<poll_pc, input_stream, output_stream, packet, break_due,
                   awaits_halt, trace,
                   outside_gdb>>

\* awaits_halt.lock().unwrap() in the continue, halt and step branches
GwLockAwaits ==
    /\ gw_pc = "handle"
    /\ core_ops = <<>>
    /\ SetsAwaitsHalt(packet)
    /\ awaits_halt_mutex = "free"
    /\ IF "awaits_halt" \in poisoned
       THEN /\ gw_pc' = "panicked"
            /\ Panic("handler")
       ELSE /\ gw_pc' = "set_awaits"
            /\ awaits_halt_mutex' = "handler"
            /\ UNCHANGED <<session_mutex, poisoned, in_dap>>
    /\ UNCHANGED <<poll_pc, input_stream, output_stream, packet, core_ops, break_due,
                   awaits_halt, core, trace,
                   outside_gdb>>

\* (variant: the guard of awaits_halt outlives the branch)
GwSetAwaits_KeepsGuard ==
    /\ gw_pc = "set_awaits"
    /\ gw_pc' = "respond"
    /\ awaits_halt' = (packet = "c")
    /\ UNCHANGED <<poll_pc, input_stream, output_stream, packet, core_ops, break_due,
                   session_mutex, awaits_halt_mutex, poisoned, core, in_dap, trace,
                   outside_gdb>>

\* *awaits_halt = ..; the guard is dropped at the end of the branch
GwSetAwaits ==
    /\ gw_pc = "set_awaits"
    /\ gw_pc' = "respond"
    /\ awaits_halt' = (packet = "c")
    /\ awaits_halt_mutex' = "free"
    /\ UNCHANGED <<poll_pc, input_stream, output_stream, packet, core_ops, break_due,
                   session_mutex, poisoned, core, in_dap, trace,
                   outside_gdb>>

\* (variant: the loop goes on after a detach)
GwRespond_IgnoresBreak ==
    /\ \/ gw_pc = "respond"
       \/ gw_pc = "handle" /\ core_ops = <<>> /\ ~SetsAwaitsHalt(packet)
    /\ \E sent \in BOOLEAN :
         IF PacketResponse(packet) = {}
         THEN /\ gw_pc' = "next"
              /\ UNCHANGED <<output_stream, trace>>
         ELSE IF sent
         THEN /\ gw_pc' = "next"
              /\ output_stream' = Append(output_stream, OptVal(PacketResponse(packet)))
              /\ trace' = Append(trace, <<"send", OptVal(PacketResponse(packet)), "handler">>)
         ELSE /\ gw_pc' = "failed"
              /\ trace' = Append(trace, <<"send_err", OptVal(PacketResponse(packet)), "handler">>)
              /\ UNCHANGED output_stream
    /\ break_due' = (break_due \/ packet = "D")
    /\ session_mutex' = "free"
    /\ UNCHANGED <<poll_pc, input_stream, packet, core_ops, awaits_halt_mutex,
                   poisoned, awaits_halt, core, in_dap, outside_gdb>>

\* (variant: every response is sent twice)
GwRespond_Twice ==
    /\ \/ gw_pc = "respond"
       \/ gw_pc = "handle" /\ core_ops = <<>> /\ ~SetsAwaitsHalt(packet)
    /\ IF PacketResponse(packet) = {}
       THEN UNCHANGED <<output_stream, trace>>
       ELSE /\ output_stream' = output_stream \o <<OptVal(PacketResponse(packet)),
                                                    OptVal(PacketResponse(packet))>>
            /\ trace' = trace \o <<<<"send", OptVal(PacketResponse(packet)), "handler">>,
                                    <<"send", OptVal(PacketResponse(packet)), "handler">>>>
    /\ gw_pc' = IF break_due \/ packet = "D" THEN "returned" ELSE "next"
    /\ break_due' = (break_due \/ packet = "D")
    /\ session_mutex' = "free"
    /\ UNCHANGED <<poll_pc, input_stream, packet, core_ops, awaits_halt_mutex,
                   poisoned, awaits_halt, core, in_dap, outside_gdb>>

\* the response is sent if there is one, the Session guard is dropped, and
\* the loop goes on unless break_due; an Err of unbounded_send is returned
\* by worker
GwRespond ==
    /\ \/ gw_pc = "respond"
       \/ gw_pc = "handle" /\ core_ops = <<>> /\ ~SetsAwaitsHalt(packet)
    /\ \E sent \in BOOLEAN :
         IF PacketResponse(packet) = {}
         THEN /\ gw_pc' = IF break_due \/ packet = "D" THEN "returned" ELSE "next"
              /\ UNCHANGED <<output_stream, trace>>
         ELSE IF sent
         THEN /\ gw_pc' = IF break_due \/ packet = "D" THEN "returned" ELSE "next"
              /\ output_stream' = Append(output_stream, OptVal(PacketResponse(packet)))
              /\ trace' = Append(trace, <<"send", OptVal(PacketResponse(packet)), "handler">>)
         ELSE /\ gw_pc' = "failed"
              /\ trace' = Append(trace, <<"send_err", OptVal(PacketResponse(packet)), "handler">>)
              /\ UNCHANGED output_stream
    /\ break_due' = (break_due \/ packet = "D")
    /\ session_mutex' = "free"
    /\ UNCHANGED <<poll_pc, input_stream, packet, core_ops, awaits_halt_mutex,
                   poisoned, awaits_halt, core, in_dap, outside_gdb>>

\* ---- the polling thread ----
\* (variant: the thread goes on without waiting for the Session mutex)
PollLockSession_NoWait ==
    /\ poll_pc = "sleep"
    /\ IF "session" \in poisoned
       THEN /\ poll_pc' = "panicked"
            /\ UNCHANGED session_mutex
       ELSE /\ poll_pc' = "lock_awaits"
            /\ session_mutex' = "poller"
    /\ UNCHANGED <<gw_pc, input_stream, output_stream, packet, core_ops, break_due,
                   awaits_halt_mutex, poisoned, awaits_halt, core, in_dap, trace,
                   outside_gdb>>

\* after the sleep: session.lock().unwrap()
PollLockSession ==
    /\ poll_pc = "sleep"
    /\ session_mutex = "free"
    /\ IF "session" \in poisoned
       THEN /\ poll_pc' = "panicked"
            /\ UNCHANGED session_mutex
       ELSE /\ poll_pc' = "lock_awaits"
            /\ session_mutex' = "poller"
    /\ UNCHANGED <<gw_pc, input_stream, output_stream, packet, core_ops, break_due,
                   awaits_halt_mutex, poisoned, awaits_halt, core, in_dap, trace,
                   outside_gdb>>

\* awaits_halt.lock().unwrap()
PollLockAwaits ==
    /\ poll_pc = "lock_awaits"
    /\ awaits_halt_mutex = "free"
    /\ IF "awaits_halt" \in poisoned
       THEN /\ poll_pc' = "panicked"
            /\ Panic("poller")
       ELSE /\ poll_pc' = "check"
            /\ awaits_halt_mutex' = "poller"
            /\ UNCHANGED <<session_mutex, poisoned, in_dap>>
    /\ UNCHANGED <<gw_pc, input_stream, output_stream, packet, core_ops, break_due,
                   awaits_halt, core, trace,
                   outside_gdb>>

\* (variant: the thread never asks the core)
PollCheck_NeverQueries ==
    /\ poll_pc = "check"
    /\ poll_pc' = "unlock"
    /\ UNCHANGED <<gw_pc, input_stream, output_stream, packet, core_ops, break_due,
                   session_mutex, awaits_halt_mutex, poisoned, awaits_halt, core,
                   in_dap, trace, outside_gdb>>

\* if *awaits_halt && ..: core_halted is called only when the flag is set
PollCheck ==
    /\ poll_pc = "check"
    /\ IF awaits_halt
       THEN /\ poll_pc' = "in_op"
            /\ in_dap' = in_dap \cup {"poller"}
       ELSE /\ poll_pc' = "unlock"
            /\ UNCHANGED in_dap
    /\ UNCHANGED <<gw_pc, input_stream, output_stream, packet, core_ops, break_due,
                   session_mutex, awaits_halt_mutex, poisoned, awaits_halt, core,
                   trace,
                   outside_gdb>>

\* (variant: the stop reply is sent and the flag left set)
PollCoreHalted_KeepsFlag ==
    /\ poll_pc = "in_op"
    /\ \E ok \in BOOLEAN :
         IF ~ok
         THEN /\ poll_pc' = "panicked"
              /\ Panic("poller")
              /\ UNCHANGED <<output_stream, trace>>
         ELSE /\ poll_pc' = "unlock"
              /\ in_dap' = in_dap \ {"poller"}
              /\ IF core = "halted"
                 THEN \E sent \in BOOLEAN :
                           IF sent
                           THEN /\ output_stream' = Append(output_stream, "T05hwbreak:;")
                                /\ trace' = Append(trace, <<"send", "T05hwbreak:;", "poller">>)
                           ELSE /\ trace' = Append(trace, <<"send_err", "T05hwbreak:;", "poller">>)
                                /\ UNCHANGED output_stream
                 ELSE UNCHANGED <<output_stream, trace>>
              /\ UNCHANGED <<session_mutex, awaits_halt_mutex, poisoned>>
    /\ UNCHANGED <<gw_pc, input_stream, packet, core_ops, break_due, core, awaits_halt,
                   outside_gdb>>

\* core_halted returns; Err is unwrapped; when the core is halted the flag is
\* cleared and the stop reply sent, the result of unbounded_send being ignored
PollCoreHalted ==
    /\ poll_pc = "in_op"
    /\ \E ok \in BOOLEAN :
         IF ~ok
         THEN /\ poll_pc' = "panicked"
              /\ Panic("poller")
              /\ UNCHANGED <<awaits_halt, output_stream, trace>>
         ELSE /\ poll_pc' = "unlock"
              /\ in_dap' = in_dap \ {"poller"}
              /\ IF core = "halted"
                 THEN /\ awaits_halt' = FALSE
                      /\ \E sent \in BOOLEAN :
                           IF sent
                           THEN /\ output_stream' = Append(output_stream, "T05hwbreak:;")
                                /\ trace' = Append(trace, <<"send", "T05hwbreak:;", "poller">>)
                           ELSE /\ trace' = Append(trace, <<"send_err", "T05hwbreak:;", "poller">>)
                                /\ UNCHANGED output_stream
                 ELSE UNCHANGED <<awaits_halt, output_stream, trace>>
              /\ UNCHANGED <<session_mutex, awaits_halt_mutex, poisoned>>
    /\ UNCHANGED <<gw_pc, input_stream, packet, core_ops, break_due, core, outside_gdb>>

\* the end of the block drops both guards; then the thread sleeps
PollUnlock ==
    /\ poll_pc = "unlock"
    /\ poll_pc' = "sleep"
    /\ session_mutex' = Released(session_mutex, "poller")
    /\ awaits_halt_mutex' = Released(awaits_halt_mutex, "poller")
    /\ UNCHANGED <<gw_pc, input_stream, output_stream, packet, core_ops, break_due,
                   poisoned, awaits_halt, core, in_dap, trace,
                   outside_gdb>>

\* ---- the target ----
\* a running core halts of its own (a breakpoint)
CoreHalts ==
    /\ poll_pc # "idle"
    /\ core = "running"
    /\ core' = "halted"
    /\ UNCHANGED <<gw_pc, poll_pc, input_stream, output_stream, packet, core_ops,
                   break_due, session_mutex, awaits_halt_mutex, poisoned, awaits_halt,
                   in_dap, trace,
                   outside_gdb>>

(***************************************************************************)
(* GDB writer (writer.rs): one call of writer(packet, stream, buffer)       *)
(***************************************************************************)
\* the bytes the peer may send: ack, nack, and any other byte
PeerBytes == {"+", "-", "$"}
\* let mut tmp_buf = [0; 128]
TmpBufLen == 128

RECURSIVE ByteSeqs(_)
ByteSeqs(n) ==
    IF n = 0 THEN {<<>>}
    ELSE ByteSeqs(n - 1) \cup
         {Append(q, b) : q \in {r \in ByteSeqs(n - 1) : Len(r) = n - 1}, b \in PeerBytes}

WrIdle ==
    /\ wr_pc = "idle"
    /\ wr_packet = FALSE
    /\ stream = <<>>
    /\ buffer = <<>>
    /\ acked = FALSE

\* writer is called with a packet, a stream on which the peer sends some
\* bytes and then either closes its side or stays silent, and a buffer that
\* may hold a byte left from an earlier call
WrInit ==
    /\ wr_pc = "call"
    /\ wr_packet \in BOOLEAN
    /\ stream \in [out : {<<>>}, inp : ByteSeqs(MaxPeerBytes), closed : BOOLEAN]
    /\ buffer \in ByteSeqs(1)
    /\ acked = FALSE

\* if packet.is_valid(): encode and flush, each with `?`; else Ok(())
WrWrite ==
    /\ wr_pc = "call"
    /\ IF wr_packet
       THEN \E ok \in BOOLEAN :
              IF ok
              THEN /\ stream' = [stream EXCEPT !.out = Append(@, "packet")]
                   /\ wr_pc' = "read"
              ELSE /\ wr_pc' = "ret_err"
                   /\ UNCHANGED stream
       ELSE /\ wr_pc' = "ret_ok"
            /\ UNCHANGED stream
    /\ UNCHANGED <<wr_packet, buffer, acked, outside_wr>>

\* let n = stream.read(&mut tmp_buf).await?: an error returns; at the end of
\* a closed stream n is 0; otherwise n bytes are appended to the buffer, and
\* while the peer is silent the read does not return
WrRead ==
    /\ wr_pc = "read"
    /\ \/ /\ wr_pc' = "ret_err"
          /\ UNCHANGED <<stream, buffer>>
       \/ /\ stream.inp = <<>>
          /\ stream.closed
          /\ wr_pc' = "scan"
          /\ UNCHANGED <<stream, buffer>>
       \/ \E n \in 1..Len(stream.inp) :
            /\ n <= TmpBufLen
            /\ buffer' = buffer \o SubSeq(stream.inp, 1, n)
            /\ stream' = [stream EXCEPT !.inp = SubSeq(@, n + 1, Len(@))]
            /\ wr_pc' = "scan"
    /\ UNCHANGED <<wr_packet, acked, outside_wr>>

\* the for loop over the buffer: '+' counts and breaks, '-' counts and goes
\* on, any other byte breaks; i is the count
RECURSIVE AckScan(_, _)
AckScan(bytes, i) ==
    IF bytes = <<>> THEN [i |-> i, ack |-> FALSE]
    ELSE IF Head(bytes) = "+" THEN [i |-> i + 1, ack |-> TRUE]
    ELSE IF Head(bytes) = "-" THEN AckScan(Tail(bytes), i + 1)
    ELSE [i |-> i, ack |-> FALSE]

\* the scan, buffer.drain(..i), and the next turn of the loop: the breaks of
\* the for loop leave the for loop only
WrScan ==
    /\ wr_pc = "scan"
    /\ buffer' = SubSeq(buffer, AckScan(buffer, 0).i + 1, Len(buffer))
    /\ acked' = (acked \/ AckScan(buffer, 0).ack)
    /\ wr_pc' = "read"
    /\ UNCHANGED <<wr_packet, stream, outside_wr>>

(***************************************************************************)
(* Specifications                                                          *)
(***************************************************************************)
InitAsm == AsmInit /\ StlIdle /\ CfIdle /\ ArgIdle /\ ApIdle /\ GdbIdle /\ WrIdle
NextAsm == Assemble
SpecAsm == InitAsm /\ [][NextAsm]_vars

InitStl == StlInit /\ AsmIdle /\ CfIdle /\ ArgIdle /\ ApIdle /\ GdbIdle /\ WrIdle
NextStl ==
    \/ NewFromProbeInfo
    \/ Attach
    \/ Detach
    \/ TargetReset
    \/ ReadRegister
    \/ WriteRegister
    \/ OpenAp
    \/ CloseAp
    \/ SetSwdFrequency
    \/ SetJtagFrequency
    \/ DriveNreset
    \/ Drop
SpecStl == InitStl /\ [][NextStl]_vars

\* the probes cargo-flash may find: in mass-storage or in debug mode, with a
\* current or an outdated firmware
CfProbeModes == {1, 2}
CfProbeVersions == {VersionWord(2, 28, 7), VersionWord(2, 20, 7)}
InitCf ==
    /\ CfInit
    /\ StlInit
    /\ dev.mode \in CfProbeModes
    /\ dev.version \in CfProbeVersions
    /\ dev.a0 = 1
    /\ AsmIdle
    /\ ArgIdle
    /\ ApIdle
    /\ GdbIdle
    /\ WrIdle
NextCf ==
    \/ CfStart
    \/ CfBuild
    \/ CfProject
    \/ CfListProbes
    \/ CfOpen
    \/ CfAttach
    \/ CfNrfRecover
    \/ CfIdentify
    \/ CfTarget
    \/ CfFlash
    \/ CfReset
    \/ CfGdb
SpecCf == InitCf /\ [][NextCf]_vars

InitArgs == ArgInit /\ AsmIdle /\ StlIdle /\ CfIdle /\ ApIdle /\ GdbIdle /\ WrIdle
NextArgs == BuildArgs
SpecArgs == InitArgs /\ [][NextArgs]_vars

InitAp == ApInit /\ AsmIdle /\ StlIdle /\ CfIdle /\ ArgIdle /\ GdbIdle /\ WrIdle
NextAp ==
    \/ ValidAccessPorts
    \/ GetApByIdr
SpecAp == InitAp /\ [][NextAp]_vars

InitGdb == GdbInit /\ AsmIdle /\ StlIdle /\ CfIdle /\ ArgIdle /\ ApIdle /\ WrIdle
NextGdb ==
    \/ GwNext
    \/ GwLockSession
    \/ GwOpBegin
    \/ GwOpEnd
    \/ GwLockAwaits
    \/ GwSetAwaits
    \/ GwRespond
    \/ PollLockSession
    \/ PollLockAwaits
    \/ PollCheck
    \/ PollCoreHalted
    \/ PollUnlock
    \/ CoreHalts
SpecGdb == InitGdb /\ [][NextGdb]_vars

\* the polling thread is spawned on a thread of its own and loops for ever
\* (sleep, lock, check, unlock); it is taken to be scheduled again and again:
\* a step of it that stays possible is eventually taken
PollerThread ==
    PollLockSession \/ PollLockAwaits \/ PollCheck \/ PollCoreHalted \/ PollUnlock
SpecGdbFair == InitGdb /\ [][NextGdb]_vars /\ WF_vars(PollerThread)

InitWr == WrInit /\ AsmIdle /\ StlIdle /\ CfIdle /\ ArgIdle /\ ApIdle /\ GdbIdle
NextWr ==
    \/ WrWrite
    \/ WrRead
    \/ WrScan
SpecWr == InitWr /\ [][NextWr]_vars

(***************************************************************************)
(* Properties of the assembler (checked under SpecAsm)                     *)
(***************************************************************************)
RawLen == Len(raw.instructions)
RamLength == ram_region.end - ram_region.start
\* bytes needed after the stack: header, raw instructions, one page
AsmNeeded == FLASH_BLOB_HEADER_SIZE + 4 * RawLen + flash_region.page_size
StackOffsets == {FLASH_ALGO_STACK_DECREMENT * k :
                   k \in 1..(FLASH_ALGO_STACK_SIZE \div FLASH_ALGO_STACK_DECREMENT)}
FittingOffsets == {s \in StackOffsets : s + AsmNeeded <= RamLength}
SetMax(S) == CHOOSE x \in S : \A y \in S : y <= x
CodeEnd == algo.load_address + FLASH_BLOB_HEADER_SIZE + 4 * RawLen

\* C1: every FlashAlgorithm that assemble returns has its code and its first
\* page buffer inside the RAM region:
\* load_address + 32 + 4*|raw.instructions| + page_size <= ram_region.end.
\* (Violated: assemble also returns when nothing fits.)
C1_CodeAndPageFit ==
    asm_pc = "ret" => CodeEnd + flash_region.page_size <= ram_region.end

\* C2 as stated: the first page buffer starts strictly above the end of the
\* loaded code, page_buffers[0] > load_address + 32 + 4*|raw.instructions|.
C2_BufferStrictlyAboveCode ==
    asm_pc = "ret" => algo.page_buffers[1] > CodeEnd

\* C2 (amended): the first page buffer starts exactly at the end of the loaded
\* code, page_buffers[0] = load_address + 32 + 4*|raw.instructions|, so it is
\* at or above it and never strictly above.
C2_BufferAtCodeEnd ==
    asm_pc = "ret" => algo.page_buffers[1] = CodeEnd

C2_Witness ==
    /\ asm_pc = "ret"
    /\ RawLen = MaxInstrWords
    /\ FittingOffsets # {}
    /\ algo.page_buffers[1] = CodeEnd

\* C3: when header + instructions + one page do not fit in the RAM region even
\* with the smallest stack (64 bytes), assemble returns no FlashAlgorithm
\* (it fails with NotEnoughRam).  (Violated: assemble has no failure path.)
C3_NotEnoughRam ==
    ~(asm_pc = "ret" /\ FLASH_ALGO_STACK_DECREMENT + AsmNeeded > RamLength)

\* C4: the stack offset used is the largest multiple of 64 in [64, 512] for
\* which stack, header, instructions and one page fit in the RAM length,
\* whenever such an offset exists (the offsets are tried from 512 downwards).
C4_LargestFittingStack ==
    (asm_pc = "ret" /\ FittingOffsets # {}) =>
        algo.load_address - ram_region.start = SetMax(FittingOffsets)

C4_Witness ==
    /\ asm_pc = "ret"
    /\ Cardinality(FittingOffsets) = 3
    /\ algo.load_address - ram_region.start = 3 * FLASH_ALGO_STACK_DECREMENT

\* C5: load_address >= ram_region.start and
\* begin_stack = load_address = ram_region.start + stack_offset, where
\* stack_offset is one of the stack sizes 64, 128, ..., 512.
C5_StackBelowHeader ==
    asm_pc = "ret" =>
        /\ algo.load_address >= ram_region.start
        /\ algo.begin_stack = algo.load_address
        /\ algo.load_address - ram_region.start \in StackOffsets
        /\ FittingOffsets # {} =>
               algo.load_address = ram_region.start + SetMax(FittingOffsets)

C5_Witness ==
    /\ asm_pc = "ret"
    /\ ram_region.start > 0
    /\ algo.begin_stack = ram_region.start + FLASH_ALGO_STACK_SIZE

C7_PageBuffers ==
    asm_pc = "ret" =>
        /\ Len(algo.page_buffers) \in {1, 2}
        /\ Len(algo.page_buffers) = 2 <=>
             algo.page_buffers[1] + 2 * flash_region.page_size <= ram_region.end
        /\ Len(algo.page_buffers) = 2 =>
             algo.page_buffers[2] = algo.page_buffers[1] + flash_region.page_size
        /\ algo.begin_data = algo.page_buffers[1]

C7_Witness ==
    /\ asm_pc = "ret"
    /\ Len(algo.page_buffers) = 2
    /\ algo.page_buffers[2] + flash_region.page_size = ram_region.end

\* the address the word algo.instructions[k] is loaded at
WordAddress(k) == algo.load_address + 4 * (k - 1)

\* C27: the instructions of the FlashAlgorithm are the eight header words
\* followed by the words of raw.instructions, in their order and with
\* nothing between: their number is 8 + |raw.instructions|, and the first
\* raw word is loaded at load_address + 32, the address the entry points
\* are relocated by.
C27_HeaderThenRaw ==
    asm_pc = "ret" =>
        /\ Len(algo.instructions) = 8 + RawLen
        /\ \A k \in 1..8 : algo.instructions[k] = FLASH_BLOB_HEADER[k]
        /\ \A j \in 1..RawLen :
              /\ algo.instructions[8 + j] = raw.instructions[j]
              /\ WordAddress(8 + j) = algo.load_address + 32 + 4 * (j - 1)
        /\ WordAddress(9) = algo.pc_program_page - raw.pc_program_page

C27_Witness ==
    /\ asm_pc = "ret"
    /\ RawLen = MaxInstrWords
    /\ Len(algo.instructions) = 8 + MaxInstrWords
    /\ algo.instructions[1] = <<57354, 48640>>
    /\ algo.instructions[9] = RawWord(1)
    /\ algo.instructions[8 + MaxInstrWords] = RawWord(MaxInstrWords)

\* the areas of the layout, as <<first address, address after the last>>
StackArea == <<ram_region.start, algo.load_address>>
CodeArea == <<algo.load_address, algo.load_address + 4 * (8 + RawLen)>>
BufferArea(i) == <<algo.page_buffers[i], algo.page_buffers[i] + flash_region.page_size>>
LayoutAreas ==
    <<StackArea, CodeArea>> \o [i \in 1..Len(algo.page_buffers) |-> BufferArea(i)]

\* C28: in the order stack, code, page buffers, each area of the layout of
\* a FlashAlgorithm ends at or before the start of the next one, so that no
\* two of them overlap, and each lies inside [ram.start, ram.end).
\* (Violated: assemble also returns a layout when not even the smallest
\* stack, the code and one page fit in the RAM region.)
C28_LayoutInsideRam ==
    asm_pc = "ret" =>
        /\ \A i \in 1..Len(LayoutAreas) :
              /\ ram_region.start <= LayoutAreas[i][1]
              /\ LayoutAreas[i][1] <= LayoutAreas[i][2]
              /\ LayoutAreas[i][2] <= ram_region.end
        /\ \A i \in 1..(Len(LayoutAreas) - 1) :
              LayoutAreas[i][2] <= LayoutAreas[i + 1][1]

(***************************************************************************)
(* Properties of the ST-Link driver (checked under SpecStl)                *)
(***************************************************************************)
\* the versions the probe reports: the JTAG version is the one of
\* GET_VERSION_EXT on hardware 3 and above, of GET_VERSION below
ProbeHw == HwVersionOf(dev.version)
ProbeJtag == IF ProbeHw >= 3 THEN dev.ext_jtag ELSE JtagVersionOf(dev.version)
DapRegCmds == {"JTAG_READ_DAP_REG", "JTAG_WRITE_DAP_REG"}
\* command c went out in the last call and its device.write returned Ok
Answered(c) ==
    \E i \in 1..Len(last.cmds) : last.cmds[i] = c /\ last.io[i] # "UsbErr"
\* the last call read the probe's versions
VersionRead ==
    /\ Answered(<<"GET_VERSION">>)
    /\ ProbeHw >= 3 => Answered(<<"GET_VERSION_EXT">>)

\* C8 as stated: with a reported JTAG version below 24 (for example 20),
\* whatever the hardware version, no attach succeeds, a rejection of the
\* firmware is ProbeFirmwareOutdated, and no DAP register read or write
\* command is sent.  (A reported version of 0 means no JTAG support at all and
\* is answered with JTAGNotSupportedOnProbe; it is left aside here.)
C8_OutdatedRejectedAnyHw ==
    ProbeJtag \in 1..(MIN_JTAG_VERSION - 1) =>
        /\ ~(last.op = "attach" /\ last.res = "Ok")
        /\ (stl_pc = "failed" /\ VersionRead
               /\ last.res \notin {"USB", "VoltageDivisionByZero"}) =>
              last.res = "ProbeFirmwareOutdated"
        /\ CmdNames(last.cmds) \cap DapRegCmds = {}

\* C8 (amended): on hardware version below 3 with a reported JTAG version in
\* 1..23, opening the probe fails with ProbeFirmwareOutdated as soon as the
\* version has been read, so there is never a probe to attach with, and no DAP
\* register read or write command is sent.
C8_OutdatedRejectedBelowV3 ==
    (ProbeHw < 3 /\ ProbeJtag \in 1..(MIN_JTAG_VERSION - 1)) =>
        /\ stl_pc \in {"closed", "failed"}
        /\ (stl_pc = "failed" /\ VersionRead) => last.res = "ProbeFirmwareOutdated"
        /\ CmdNames(last.cmds) \cap DapRegCmds = {}

C8_Witness ==
    /\ stl_pc = "failed"
    /\ last.op = "new"
    /\ last.res = "ProbeFirmwareOutdated"
    /\ hw_version = 2
    /\ jtag_version = 20

\* C9: open_ap and close_ap fail with the multi-AP-unsupported error when the
\* stored JTAG version is below 28 and then send nothing; no call sends
\* JTAG_INIT_AP or JTAG_CLOSE_AP_DBG with such a version.  From 28 on the one
\* command is sent with the port number, and the result is the USB error or
\* else the check of the status byte.
C9_MultiApGate ==
    /\ (stl_pc # "closed" /\ jtag_version < 28) =>
          CmdNames(last.cmds) \cap {"JTAG_INIT_AP", "JTAG_CLOSE_AP_DBG"} = {}
    /\ last.op \in {"open_ap", "close_ap"} =>
          IF jtag_version < 28
          THEN last.res = "JTagDoesNotSupportMultipleAP" /\ last.cmds = <<>>
          ELSE /\ Len(last.cmds) = 1
               /\ last.cmds[1][1] = "JTAG_COMMAND"
               /\ last.cmds[1][2] = (IF last.op = "open_ap" THEN "JTAG_INIT_AP"
                                     ELSE "JTAG_CLOSE_AP_DBG")
               /\ last.cmds[1][3] = last.apsel
               /\ last.res = (IF last.io[1] = "UsbErr" THEN "USB"
                              ELSE IF last.io[1] = "JtagOk" THEN "Ok"
                              ELSE "Unknown")

C9_Witness ==
    /\ last.op = "close_ap"
    /\ hw_version = 2
    /\ jtag_version = 27
    /\ last.res = "JTagDoesNotSupportMultipleAP"

\* C10 as stated: a write to a DebugPort register is rejected with
\* BlanksNotAllowedOnDPRegister exactly when the low nibble of the address is
\* nonzero.
C10_DpWriteLowNibble ==
    (last.op = "write_register" /\ last.port.kind = "DebugPort") =>
        (last.res = "BlanksNotAllowedOnDPRegister" <=> last.addr % 16 # 0)

\* C10 (amended): a write to a DebugPort register is rejected with
\* BlanksNotAllowedOnDPRegister exactly when bits 4..7 of the address (the
\* mask 0xF0) are not all zero; the low nibble plays no part.
C10_DpWriteBankBits ==
    (last.op = "write_register" /\ last.port.kind = "DebugPort") =>
        (last.res = "BlanksNotAllowedOnDPRegister" <=> (last.addr \div 16) % 16 # 0)

C10_Witness ==
    /\ last.op = "write_register"
    /\ last.port.kind = "DebugPort"
    /\ last.addr = 16
    /\ last.res = "BlanksNotAllowedOnDPRegister"

\* the probe is in one of the modes it can be told to leave
ModeDfu == 0
ModeJtag == 2
ModeSwim == 3
NoUsbError == \A i \in 1..Len(last.io) : last.io[i] # "UsbErr"

\* C12 as stated: once an ST-Link object has been dropped or detached and
\* every command of that call went through, the probe is in none of the modes
\* DFU, debug (JTAG/SWD) and SWIM: it was told to leave whichever it was in.
C12_LeavesEveryMode ==
    (last.op \in {"drop", "detach"} /\ NoUsbError) =>
        dev.mode \notin {ModeDfu, ModeJtag, ModeSwim}

\* what init itself sent and got back when the probe was opened
InitCmds == SubSeq(last.cmds, 1, last.ninit)
InitIo == SubSeq(last.io, 1, last.ninit)
IdleCmds == {<<"GET_CURRENT_MODE">>, <<"DFU_COMMAND", "DFU_EXIT">>,
             <<"SWIM_COMMAND", "SWIM_EXIT">>}
InitResets == {i \in 1..last.ninit : InitCmds[i] = <<"USB_RESET">>}
InitModeQueries == {i \in 1..last.ninit : InitCmds[i] = <<"GET_CURRENT_MODE">>}
\* the commands of enter_idle that ended in a USB error
InitIdleFailures ==
    {i \in 1..last.ninit : InitCmds[i] \in IdleCmds /\ InitIo[i] = "UsbErr"}

\* C13: init resets the device at most once, and only right after a USB error
\* of its first attempt to enter idle mode; it enters idle mode a second time
\* exactly when that reset succeeded.  A failed reset, a USB error of the
\* second attempt, and an unknown mode in either attempt end init at once
\* with that error.
C13_InitRetriesOnce ==
    (last.op = "new" /\ last.ninit > 0) =>
        /\ Cardinality(InitResets) <= 1
        /\ Cardinality(InitModeQueries) =
              1 + Cardinality({i \in InitResets : InitIo[i] = "ResetOk"})
        /\ \A i \in InitResets :
              /\ i - 1 \in InitIdleFailures
              /\ \A j \in 1..(i - 1) : InitCmds[j] \in IdleCmds
              /\ InitIo[i] = "UsbErr" => (i = last.ninit /\ last.res = "USB")
        /\ \A i \in InitIdleFailures :
              \/ InitResets = {i + 1}
              \/ /\ \E r \in InitResets : r < i
                 /\ i = last.ninit
                 /\ last.res = "USB"
        /\ \A i \in InitModeQueries :
              (InitIo[i] # "UsbErr" /\ dev.mode \notin 0..3) =>
                  (i = last.ninit /\ last.res = "UnknownMode")

C13_Witness ==
    /\ last.op = "new"
    /\ last.res = "Ok"
    /\ stl_pc = "open"
    /\ InitResets = {2}
    /\ InitIo[1] = "UsbErr"
    /\ InitIo[2] = "ResetOk"

\* the names of the commands of the last call, in the order they were sent
LastNames == [i \in 1..Len(last.cmds) |-> CmdName(last.cmds[i])]
EnterCmds == {i \in 1..Len(last.cmds) : LastNames[i] = "JTAG_ENTER2"}

\* C22: an attach that returns Ok sent exactly one JTAG_ENTER2, with
\* JTAG_ENTER_JTAG_NO_CORE_RESET when Some(Jtag) was asked for and with
\* JTAG_ENTER_SWD for Some(Swd) and for None; it returned the protocol asked
\* for, SWD for None; and the stored protocol is the returned one.
C22_AttachReturnsProtocol ==
    (last.op = "attach" /\ last.res = "Ok") =>
        /\ Cardinality(EnterCmds) = 1
        /\ \A i \in EnterCmds :
              /\ last.cmds[i] =
                    <<"JTAG_COMMAND", "JTAG_ENTER2",
                      IF last.arg = {"Jtag"} THEN "JTAG_ENTER_JTAG_NO_CORE_RESET"
                      ELSE "JTAG_ENTER_SWD", 0>>
              /\ last.io[i] = "JtagOk"
        /\ last.val = (IF last.arg = {"Jtag"} THEN "Jtag" ELSE "Swd")
        /\ last.arg # {} => last.arg = {last.val}
        /\ protocol = last.val

C22_Witness ==
    /\ last.op = "attach"
    /\ last.res = "Ok"
    /\ last.arg = {"Jtag"}
    /\ last.val = "Jtag"
    /\ protocol = "Jtag"
    /\ \E i \in EnterCmds : last.cmds[i][3] = "JTAG_ENTER_JTAG_NO_CORE_RESET"

\* the commands of an attach that meets no failure, for a probe in `mode`
AttachPlan(mode) ==
    <<"GET_CURRENT_MODE">>
    \o (IF mode = ModeDfu THEN <<"DFU_EXIT">>
        ELSE IF mode = ModeSwim THEN <<"SWIM_EXIT">> ELSE <<>>)
    \o <<"JTAG_ENTER2", "JTAG_WRITE_DAP_REG">>
\* step `name` of an attach went through, given its outcome
AttachStepOk(name, outcome, mode) ==
    IF name = "GET_CURRENT_MODE" THEN outcome # "UsbErr" /\ mode \in 0..3
    ELSE IF name \in {"DFU_EXIT", "SWIM_EXIT"} THEN outcome # "UsbErr"
    ELSE outcome = "JtagOk"
\* the error a failed step of attach gives
AttachStepError(name, outcome) ==
    IF outcome = "UsbErr" THEN "USB"
    ELSE IF name = "GET_CURRENT_MODE" THEN "UnknownMode"
    ELSE "Unknown"

\* C23: the commands of an attach are an initial part of: the mode query
\* (followed by the exit from DFU or SWIM mode if the probe is in one),
\* JTAG_ENTER2, the write of CSYSPWRUPREQ and CDBGPWRUPREQ to DP CTRL.  Every
\* command but the last one sent went through; attach returns Ok exactly
\* when all were sent and went through; if not, it returns the error of the
\* last command sent and the stored protocol is as it was.
C23_AttachInOrder ==
    [][ last'.op = "attach" =>
          LET names == [i \in 1..Len(last'.cmds) |-> CmdName(last'.cmds[i])]
              plan == AttachPlan(dev.mode)
              n == Len(names)
              ok(i) == AttachStepOk(names[i], last'.io[i], dev.mode)
          IN  /\ n \in 1..Len(plan)
              /\ names = SubSeq(plan, 1, n)
              /\ \A i \in 1..(n - 1) : ok(i)
              /\ names[n] = "JTAG_WRITE_DAP_REG" =>
                    last'.cmds[n] =
                      <<"JTAG_COMMAND", "JTAG_WRITE_DAP_REG", 255, 255,
                        CtrlAddress, 0, 0, 0, 0, 80>>
              /\ last'.res = "Ok" <=> (n = Len(plan) /\ ok(n))
              /\ last'.res # "Ok" =>
                    /\ ~ok(n)
                    /\ last'.res = AttachStepError(names[n], last'.io[n])
                    /\ protocol' = protocol
      ]_vars

\* JTAG_ENTER2 was answered with a status other than JtagOk: nothing follows
\* it, and the protocol asked for was not stored
C23_Witness ==
    /\ last.op = "attach"
    /\ last.arg = {"Jtag"}
    /\ last.res = "Unknown"
    /\ LastNames = <<"GET_CURRENT_MODE", "JTAG_ENTER2">>
    /\ last.io[2] = "JtagUnknownError"
    /\ protocol = "Swd"

\* the version queries init sent, and the last command of its attempts to
\* enter idle mode
VersionCmds == {i \in 1..last.ninit : InitCmds[i] = <<"GET_VERSION">>}
VersionExtCmds == {i \in 1..last.ninit : InitCmds[i] = <<"GET_VERSION_EXT">>}
InitIdleLast ==
    SetMax({i \in 1..last.ninit : InitCmds[i] \in IdleCmds \cup {<<"USB_RESET">>}})
InitIdleOk ==
    /\ InitCmds[InitIdleLast] \in IdleCmds
    /\ InitIo[InitIdleLast] # "UsbErr"
    /\ dev.mode \in 0..3
InitFailedAt(i) == i = last.ninit /\ last.res = "USB" /\ stl_pc = "failed"

\* C24: an initialisation that got the probe into idle mode sends
\* GET_VERSION next, once, whatever the probe is; GET_VERSION_EXT follows it
\* exactly when GET_VERSION was answered with a hardware version of 3 or
\* more, and is sent at no other time.  A USB error of either query is the
\* last thing init does: it fails with that error and there is no probe
\* object.  Whenever there is one, its stored hardware version is the one
\* of GET_VERSION and its stored JTAG version the one of GET_VERSION_EXT if
\* the hardware version is 3 or more, and the one of GET_VERSION if not.
C24_VersionQueries ==
    /\ (last.op = "new" /\ last.ninit > 0) =>
          /\ Cardinality(VersionCmds) <= 1
          /\ InitIdleOk <=> VersionCmds = {InitIdleLast + 1}
          /\ \A i \in VersionCmds :
                IF InitIo[i] = "UsbErr"
                THEN InitFailedAt(i) /\ VersionExtCmds = {}
                ELSE IF HwVersionOf(dev.version) >= 3
                THEN VersionExtCmds = {i + 1}
                ELSE VersionExtCmds = {}
          /\ VersionExtCmds # {} => VersionCmds # {}
          /\ \A i \in VersionExtCmds : InitIo[i] = "UsbErr" => InitFailedAt(i)
    /\ stl_pc \in {"open", "dropped"} =>
          /\ hw_version = HwVersionOf(dev.version)
          /\ jtag_version = (IF HwVersionOf(dev.version) >= 3 THEN dev.ext_jtag
                             ELSE JtagVersionOf(dev.version))

\* a hardware version 3 probe: the JTAG version of GET_VERSION (20) was
\* replaced by the one of GET_VERSION_EXT (28)
C24_Witness ==
    /\ last.op = "new"
    /\ stl_pc = "open"
    /\ hw_version = 3
    /\ JtagVersionOf(dev.version) = 20
    /\ jtag_version = 28
    /\ VersionExtCmds # {}

\* the commands whose reply starts with a status byte that the driver checks
StatusCmds == {"JTAG_ENTER2", "JTAG_DRIVE_NRST", "JTAG_READ_DAP_REG",
               "JTAG_WRITE_DAP_REG", "SWD_SET_FREQ", "JTAG_SET_FREQ",
               "JTAG_INIT_AP", "JTAG_CLOSE_AP_DBG"}
StatusOps == {"attach", "target_reset", "drive_nreset", "read_register",
              "write_register", "set_swd_frequency", "set_jtag_frequency",
              "open_ap", "close_ap"}

\* C25: when a command that returns a status (JTAG_ENTER2, JTAG_DRIVE_NRST,
\* the DAP register read and write, the two frequency settings, JTAG_INIT_AP,
\* JTAG_CLOSE_AP_DBG) is answered with a first byte other than JtagOk, the
\* call that sent it sends nothing more and returns the Unknown error; a
\* call that returned Ok had every such command answered with JtagOk; and
\* read_register carries a value exactly when it returns Ok.
C25_StatusChecked ==
    last.op \in StatusOps =>
        /\ \A i \in 1..Len(last.cmds) :
              LastNames[i] \in StatusCmds =>
                  /\ last.io[i] \notin {"UsbErr", "JtagOk"} =>
                        (last.res = "Unknown" /\ i = Len(last.cmds))
                  /\ last.res = "Ok" => last.io[i] = "JtagOk"
        /\ last.op = "read_register" => (last.val # {} <=> last.res = "Ok")

\* a DAP register read answered with an error status: no value
C25_Witness ==
    /\ last.op = "read_register"
    /\ LastNames = <<"JTAG_READ_DAP_REG">>
    /\ last.io = <<"JtagUnknownError">>
    /\ last.res = "Unknown"
    /\ last.val = {}

\* C26: a read_register or write_register that returns
\* BlanksNotAllowedOnDPRegister sent no command, and left the probe and the
\* fields of the STLink as they were; it was an access to the DebugPort.  An
\* access to an AccessPort register is never answered with that error.
C26_RejectedAccessIsSilent ==
    [][ last'.op \in {"read_register", "write_register"} =>
          /\ last'.res = "BlanksNotAllowedOnDPRegister" =>
                /\ last'.cmds = <<>>
                /\ last'.port = DebugPort
                /\ UNCHANGED <<stl_pc, hw_version, jtag_version, protocol, dev>>
          /\ last'.port.kind = "AccessPort" =>
                /\ last'.res # "BlanksNotAllowedOnDPRegister"
                /\ Len(last'.cmds) = 1
      ]_vars

\* a rejected read of the DebugPort register at 0x14
C26_Witness ==
    /\ last.op = "read_register"
    /\ last.port = DebugPort
    /\ last.addr = 20
    /\ last.res = "BlanksNotAllowedOnDPRegister"
    /\ last.cmds = <<>>
    /\ last.val = {}

(***************************************************************************)
(* Properties of cargo-flash (checked under SpecCf)                        *)
(***************************************************************************)
CfExited == cf_pc = "exited"
\* the names of the log entries, and the calls that returned an error
CfDone == {cf_log[i][1] : i \in 1..Len(cf_log)}
CfFailed == {cf_log[i][1] : i \in {j \in 1..Len(cf_log) : cf_log[j][2] = "Err"}}
LogAt(name, res) == {i \in 1..Len(cf_log) : cf_log[i] = <<name, res>>}
OnStderr == {cf_stderr[i] : i \in 1..Len(cf_stderr)}
\* what touches the target: DAP register commands of the ST-Link, and the
\* calls that work through the probe
CfDapWork == DapRegCmds \cup {"nrf_recover", "read_from_rom_table", "download",
                              "reset", "reset_and_halt", "gdb_run"}

\* C11 as stated: when --nrf-recover is given and the probe is an ST-Link,
\* the run ends with the error, code 1, and before that no DAP register
\* command has been sent to the probe, nothing was flashed and the target was
\* not reset.
C11_NrfRecoverBeforeDap ==
    (CfExited /\ "nrf_recover_stlink" \in CfDone) =>
        /\ cf_exit = {1}
        /\ "nrf_recover_stlink" \in OnStderr
        /\ CfDone \cap CfDapWork = {}

\* C18: when the cargo build child ends unsuccessfully the process has
\* exited, with the child's exit code if it has one and otherwise with the
\* number of the signal that ended it; the build is all it did: no probe was
\* opened and nothing was written to stderr.
C18_BuildFailureExit ==
    (cf_status # NoStatus /\ ~success(cf_status)) =>
        /\ CfExited
        /\ cf_exit = (IF cf_status.code # {} THEN cf_status.code ELSE cf_status.signal)
        /\ cf_log = << <<"cargo_build", "Failed">> >>
        /\ cf_probe = "none"
        /\ stl_pc = "closed"
        /\ last.op = "none"
        /\ cf_stderr = <<>>

C18_Witness ==
    /\ CfExited
    /\ cf_status.code = {101}
    /\ cf_exit = {101}

\* the steps C19 lists
C19Steps == {"list_probes", "daplink_new", "daplink_attach", "stlink_new",
             "stlink_attach", "nrf_recover", "nrf_recover_stlink",
             "read_from_rom_table", "add_target_from_yaml", "get_target",
             "download", "reset", "reset_and_halt", "gdb_run"}

\* C19 as stated: when the process has exited and one of the steps (probe
\* discovery, open, attach, chip identification, target lookup, flashing,
\* reset, the GDB stub) failed, something was written to stderr and the exit
\* code is not 0; the exit code is 0 only when no step failed.
C19_EveryErrorNonzero ==
    CfExited =>
        /\ (CfFailed \cap C19Steps # {}) => (cf_stderr # <<>> /\ cf_exit # {0})
        /\ cf_exit = {0} => (CfFailed = {} /\ LogAt("cargo_build", "Failed") = {})

\* C19 (amended): a failed step other than the GDB stub is named on stderr
\* and ends the process with code 1; a failure of the GDB stub is written to
\* stderr too, but the process then ends with code 0.  The exit code is 0
\* exactly when the build did not fail and no step other than the GDB stub
\* failed.
C19_ErrorsButGdbNonzero ==
    CfExited =>
        /\ \A f \in CfFailed : f \in OnStderr
        /\ (CfFailed \ {"gdb_run"} # {}) => cf_exit = {1}
        /\ "gdb_run" \in CfFailed => cf_exit = {0}
        /\ cf_exit = {0} <=>
              (CfFailed \subseteq {"gdb_run"} /\ LogAt("cargo_build", "Failed") = {})

C19_Witness ==
    /\ CfExited
    /\ cf_probe = "STLink"
    /\ CfFailed = {"download"}
    /\ cf_stderr = <<"download">>
    /\ cf_exit = {1}

CfResets == LogAt("reset", "Ok") \cup LogAt("reset", "Err")
               \cup LogAt("reset_and_halt", "Ok") \cup LogAt("reset_and_halt", "Err")

\* C20: once the download has succeeded and main_try has moved past the
\* reset, the log holds exactly one reset call, right after the download: a
\* reset_and_halt if --reset-halt was given and a reset if not.  At no time
\* does it hold two, and after a failed download it holds none.
C20_OneResetAfterFlash ==
    /\ Cardinality(CfResets) <= 1
    /\ LogAt("download", "Err") # {} => (CfResets = {} /\ CfExited)
    /\ \A i \in LogAt("download", "Ok") :
          cf_pc \in {"gdb", "exited"} =>
              /\ CfResets = {i + 1}
              /\ cf_log[i + 1][1] = (IF cf_opt.reset_halt THEN "reset_and_halt"
                                     ELSE "reset")

C20_Witness ==
    /\ CfExited
    /\ cf_opt.reset_halt
    /\ LogAt("download", "Ok") # {}
    /\ LogAt("reset_and_halt", "Ok") # {}
    /\ cf_exit = {0}

\* C21: when --list-chips is given, whatever the other options, the process
\* does nothing but call print_families and exit with code 0: it is either
\* still at its start or has exited, and then cargo build was not run, no
\* probe was listed or opened, no command went to a probe, and nothing was
\* written to stderr.
C21_ListChipsOnly ==
    cf_opt.list_chips =>
        /\ cf_pc \in {"start", "exited"}
        /\ cf_status = NoStatus
        /\ cf_probe = "none"
        /\ stl_pc = "closed"
        /\ last.op = "none"
        /\ cf_stderr = <<>>
        /\ cf_pc = "start" => (cf_log = <<>> /\ cf_exit = {})
        /\ cf_pc = "exited" =>
              (cf_log = << <<"print_families", "Ok">> >> /\ cf_exit = {0})

\* --list-chips together with every other flag
C21_Witness ==
    /\ CfExited
    /\ cf_opt = [nrf_recover |-> TRUE, list_chips |-> TRUE, gdb |-> TRUE,
                 no_download |-> TRUE, reset_halt |-> TRUE]
    /\ cf_log = << <<"print_families", "Ok">> >>
    /\ cf_exit = {0}

(***************************************************************************)
(* Properties of the arguments of cargo build (checked under SpecArgs)     *)
(***************************************************************************)
\* the options that only cargo-flash knows: those with a value, and the flags
FlashValueOptions == {S_chip, S_chip_description_path, S_c, S_gdb_connection_string}
FlashFlags == {S_nrf_recover, S_gdb, S_no_download, S_reset_halt}

\* the arguments of a command line that are not one of these options or the
\* value of one, in their order
RECURSIVE PassThrough(_)
PassThrough(a) ==
    IF a = <<>> THEN <<>>
    ELSE IF Head(a) \in FlashValueOptions THEN PassThrough(Tail(Tail(a)))
    ELSE IF \/ Head(a) \in FlashFlags
            \/ \E n \in FlashValueOptions : StartsWith(Head(a), WithEq(n))
         THEN PassThrough(Tail(a))
    ELSE <<Head(a)>> \o PassThrough(Tail(a))

\* the command line: what follows the binary and, if cargo ran it, `flash`
CommandLine ==
    IF Len(argv) >= 2 /\ argv[2] = S_flash THEN Tail(Tail(argv)) ELSE Tail(argv)

\* C29: what cargo build is given is the command line without the
\* cargo-flash options --chip, --chip-description-path, -c, --nrf-recover,
\* --gdb, --no-download, --reset-halt, --gdb-connection-string and without
\* their values, whether a value is the next argument or follows '=' and in
\* whatever order the options come; the other arguments are all there, as
\* they were and in their order.
\* (Violated: the value of --gdb-connection-string is left in, and so is
\* --gdb when --gdb-connection-string=... comes before it.)
C29_OnlyBuildArgs ==
    arg_pc = "ret" =>
        /\ ~build_args.panic
        /\ build_args.v = PassThrough(CommandLine)

(***************************************************************************)
(* Properties of the access port enumeration (checked under SpecAp)        *)
(***************************************************************************)
SeqSet(q) == {q[i] : i \in 1..Len(q)}
Ascending(q) == \A i \in 1..Len(q), j \in 1..Len(q) : i < j => q[i] < q[j]
PortsUpTo(n) == [i \in 1..(n + 1) |-> i - 1]

\* C14: the result of valid_access_ports holds exactly the ports of 0..=255
\* whose IDR read is Ok with a nonzero value, each once, in ascending order;
\* every port is read once.
C14_ValidPorts ==
    ap_call.op = "valid_access_ports" =>
        /\ SeqSet(ap_call.ret) = {p \in ApPorts : ap_dp[p].ok /\ ap_dp[p].idr # 0}
        /\ Ascending(ap_call.ret)
        /\ ap_call.reads = PortsUpTo(LastApPort)

C14_Witness ==
    /\ ap_call.op = "valid_access_ports"
    /\ ap_call.ret = <<0, LastApPort>>
    /\ ap_dp[1] = [ok |-> TRUE, idr |-> 0]
    /\ ap_dp[2] = [ok |-> FALSE, idr |-> 0]

\* the ports whose IDR read is Ok with a value the predicate accepts
Matching == {p \in ApPorts : ap_dp[p].ok /\ ap_dp[p].idr \in ap_call.f}

\* C16: get_ap_by_idr returns the lowest port whose IDR read is Ok and
\* satisfies the predicate, having read the ports from 0 up to that one and
\* no other; when no port matches it returns None after reading all of them.
C16_LowestMatch ==
    ap_call.op = "get_ap_by_idr" =>
        IF Matching = {}
        THEN ap_call.ret = {} /\ ap_call.reads = PortsUpTo(LastApPort)
        ELSE \E p \in Matching :
               /\ \A q \in Matching : p <= q
               /\ ap_call.ret = {p}
               /\ ap_call.reads = PortsUpTo(p)

C16_Witness ==
    /\ ap_call.op = "get_ap_by_idr"
    /\ ap_call.ret = {1}
    /\ ~ap_dp[0].ok
    /\ {2, LastApPort} \subseteq Matching
    /\ ap_call.reads = <<0, 1>>

(***************************************************************************)
(* Properties of the GDB worker (checked under SpecGdb)                    *)
(***************************************************************************)
\* C17: at most one of the two threads is inside a core or probe operation,
\* and a thread that is inside one holds the Session mutex; the handler
\* holds it from the moment it starts on a packet until it has sent the
\* response, the poller from its lock until the end of its block.
C17_SessionMutexHeld ==
    /\ Cardinality(in_dap) <= 1
    /\ \A t \in in_dap : session_mutex = t
    /\ gw_pc \in {"handle", "in_op", "set_awaits", "respond"} => session_mutex = "handler"
    /\ poll_pc \in {"lock_awaits", "check", "in_op", "unlock"} => session_mutex = "poller"

\* the handler is inside an operation while the poller, with a halt awaited,
\* is at its lock
C17_Witness ==
    /\ in_dap = {"handler"}
    /\ poll_pc = "sleep"
    /\ awaits_halt
    /\ packet = "p"

\* the steps of each thread
HandlerStep ==
    GwNext \/ GwLockSession \/ GwOpBegin \/ GwOpEnd \/ GwLockAwaits \/ GwSetAwaits
        \/ GwRespond
PollerStep ==
    PollLockSession \/ PollLockAwaits \/ PollCheck \/ PollCoreHalted \/ PollUnlock
\* a thread has ended: worker returned (Ok or Err) or panicked, the poller panicked
HandlerEnded == gw_pc \in {"returned", "failed", "panicked"}
PollerEnded == poll_pc = "panicked"
\* a thread is at a lock() of a mutex that another holds
HandlerWaitsFor ==
    IF gw_pc = "lock_session" /\ session_mutex # "free" THEN {"session"}
    ELSE IF gw_pc = "handle" /\ core_ops = <<>> /\ SetsAwaitsHalt(packet)
            /\ awaits_halt_mutex # "free" THEN {"awaits_halt"}
    ELSE {}
PollerWaitsFor ==
    IF poll_pc = "sleep" /\ session_mutex # "free" THEN {"session"}
    ELSE IF poll_pc = "lock_awaits" /\ awaits_halt_mutex # "free" THEN {"awaits_halt"}
    ELSE {}

\* C30: the two threads never wait for each other.  A thread holds the
\* awaits_halt mutex only while it holds the Session mutex, so the second
\* lock never has to wait; a thread that waits for its next packet, sleeps
\* or has ended holds neither mutex; a thread that waits at the Session lock
\* waits for the other thread, which is then inside its block and can take
\* its next step, a send to the output channel included; and as long as a
\* thread has not ended, one of them can take a step.
C30_NoDeadlock ==
    /\ \A t \in {"handler", "poller"} : awaits_halt_mutex = t => session_mutex = t
    /\ gw_pc \in {"next", "lock_session", "returned", "failed", "panicked"} =>
          (session_mutex # "handler" /\ awaits_halt_mutex # "handler")
    /\ poll_pc \in {"sleep", "panicked"} =>
          (session_mutex # "poller" /\ awaits_halt_mutex # "poller")
    /\ "awaits_halt" \notin HandlerWaitsFor \cup PollerWaitsFor
    /\ HandlerWaitsFor # {} =>
          (session_mutex = "poller" /\ PollerWaitsFor = {} /\ ENABLED PollerStep)
    /\ PollerWaitsFor # {} =>
          (session_mutex = "handler" /\ HandlerWaitsFor = {} /\ ENABLED HandlerStep)
    /\ gw_pc = "respond" => ENABLED GwRespond
    /\ poll_pc = "in_op" => ENABLED PollCoreHalted
    /\ ~(HandlerEnded /\ PollerEnded) => ENABLED (HandlerStep \/ PollerStep)

\* the handler waits at the Session lock while the poller, holding both
\* mutexes, asks the core whether it has halted
C30_Witness ==
    /\ HandlerWaitsFor = {"session"}
    /\ session_mutex = "poller"
    /\ awaits_halt_mutex = "poller"
    /\ poll_pc = "in_op"
    /\ awaits_halt

\* the events of the trace
Received(kind) == <<"recv", kind, "client">>
Sent(data, thread) == <<"send", data, thread>>
SendFailed(data, thread) == <<"send_err", data, thread>>
StopReplies == {"T05hwbreak:;", "S05"}
IsStopReply(e) == e[1] = "send" /\ e[2] \in StopReplies
\* the stop replies sent after the continue request at position i and before
\* the next continue request
StopRepliesAfter(i) ==
    {j \in (i + 1)..Len(trace) :
        /\ IsStopReply(trace[j])
        /\ \A k \in (i + 1)..(j - 1) : trace[k] # Received("c")}

\* C31: between one continue request and the next the client is sent at
\* most one stop reply ("T05hwbreak:;" or "S05"), whatever packets arrive in
\* between and however the two threads interleave.
C31_OneStopReplyPerContinue ==
    \A i \in 1..Len(trace) :
        trace[i] = Received("c") => Cardinality(StopRepliesAfter(i)) <= 1

\* a step in which the polling thread sends, or tries to send, a packet
PollerSends ==
    /\ Len(trace') = Len(trace) + 1
    /\ trace'[Len(trace')][1] \in {"send", "send_err"}
    /\ trace'[Len(trace')][3] = "poller"
\* a step in which the polling thread begins a query of the core
PollerQueries == "poller" \in in_dap' \ in_dap

\* C32: the polling thread sends only "T05hwbreak:;", only in an iteration
\* in which awaits_halt is true and the core is halted, and clears
\* awaits_halt in the step that sends, holding both mutexes before and after
\* it; while awaits_halt is false an iteration of the thread sends nothing
\* and does not query the core.
C32_PollerSendsOnlyAwaitedHalt ==
    [][/\ PollerSends =>
            /\ trace'[Len(trace')][2] = "T05hwbreak:;"
            /\ awaits_halt /\ core = "halted"
            /\ ~awaits_halt'
            /\ session_mutex = "poller" /\ awaits_halt_mutex = "poller"
            /\ session_mutex' = "poller" /\ awaits_halt_mutex' = "poller"
       /\ PollerQueries => awaits_halt
       /\ "poller" \in in_dap => awaits_halt
       /\ (poll_pc = "check" /\ ~awaits_halt /\ poll_pc' # poll_pc) =>
            /\ poll_pc' = "unlock"
            /\ "poller" \notin in_dap'
            /\ UNCHANGED <<trace, output_stream>>
       /\ (output_stream' # output_stream /\ poll_pc' # poll_pc) => PollerSends
      ]_vars

\* the polling thread has just sent its stop reply and still holds both
\* mutexes, the flag cleared
C32_Witness ==
    /\ poll_pc = "unlock"
    /\ Len(trace) > 0
    /\ trace[Len(trace)] = Sent("T05hwbreak:;", "poller")
    /\ ~awaits_halt
    /\ core = "halted"
    /\ session_mutex = "poller" /\ awaits_halt_mutex = "poller"

\* a continue request is pending, the core has halted, and no further packet
\* arrives: the input stream is at its end and the handler is between packets
\* or has returned
HaltAwaitedAndQuiet ==
    /\ awaits_halt
    /\ core = "halted"
    /\ input_stream = <<>>
    /\ gw_pc \in {"next", "returned", "failed"}
\* the last thing that went over a channel is the poller's stop reply
PollerSentStopReply ==
    /\ ~awaits_halt
    /\ Len(trace) > 0
    /\ trace[Len(trace)] \in {Sent("T05hwbreak:;", "poller"),
                               SendFailed("T05hwbreak:;", "poller")}

\* C33: once a continue request is pending, the core has halted and no
\* further packet arrives, the polling thread eventually sends its
\* "T05hwbreak:;" stop reply, provided it keeps being scheduled and does not
\* panic on a failed query.
C33_HaltIsReported ==
    HaltAwaitedAndQuiet ~> (PollerSentStopReply \/ poll_pc = "panicked")

\* after a continue request as the only packet the worker has returned and
\* the poller has reported the halt
C33_Witness ==
    /\ trace = <<Received("c"), Sent("T05hwbreak:;", "poller")>>
    /\ gw_pc = "returned"
    /\ input_stream = <<>>
    /\ core = "halted"
    /\ ~awaits_halt

\* what the packet handler received and sent, in order
HandlerTrace == SelectSeq(trace, LAMBDA e : e[3] # "poller")
\* the handler is between packets or has ended its loop
BetweenPackets == gw_pc \in {"next", "returned"}
\* the packets put on the output stream according to a trace
OutputOf(t) ==
    [j \in 1..Len(SelectSeq(t, LAMBDA e : e[1] = "send")) |->
        SelectSeq(t, LAMBDA e : e[1] = "send")[j][2]]
\* the packets that are answered: the valid ones but the continue request
HasResponse(kind) == kind \notin {"invalid", "c"}

DetachAt == {i \in 1..Len(HandlerTrace) : HandlerTrace[i] = Received("D")}

LoopEnded == gw_pc \in {"returned", "failed"}

\* C36: once the packet loop has ended, no core or probe operation is begun
\* and nothing more is put on the output stream.
C36_QuietAfterLoop ==
    [][LoopEnded => (in_dap' \subseteq in_dap /\ output_stream' = output_stream)]_vars

(***************************************************************************)
(* Properties of the GDB writer (checked under SpecWr)                     *)
(***************************************************************************)
WriterReturned == wr_pc \in {"ret_ok", "ret_err"}
\* a step in which the ack byte is taken from the buffer
AckConsumed == acked' /\ ~acked
\* a step in which read returns 0 at the end of the stream
ReadAtEof == wr_pc = "read" /\ wr_pc' = "scan" /\ stream.inp = <<>>

\* C37: having written a valid packet, writer returns Ok in the step in
\* which it finds the ack '+', and it returns when a read finds the stream
\* at its end.
C37_ReturnsOnAck ==
    [][/\ AckConsumed => wr_pc' = "ret_ok"
       /\ ReadAtEof => WriterReturned'
      ]_vars

====
